---- MODULE Spec2Model ----
(***************************************************************************)
(* A model of the social-media content backend:                            *)
(*   - AIImageService  (src/src/services/ai_image_service.py)              *)
(*   - SEOContentService (src/src/services/seo_content_service.py)         *)
(*   - the post routes   (src/src/routes/social_media.py), further down    *)
(* Both services are stateless: every operation is modelled as one action  *)
(* that draws the arguments, the outcomes of the network requests, the     *)
(* clock readings and the pseudo-random choices, and records the call and  *)
(* what it returned (or raised).  Python methods keep their names, without *)
(* the leading underscore.  Strings are TLC strings; every code point that *)
(* is not ASCII (the pictographs and bullets of the templates) is written  *)
(* "*", which keeps the lengths and the word counts of the texts.          *)
(***************************************************************************)
EXTENDS Integers, Sequences, FiniteSets, TLC

VARIABLES
    huggingface_api_key,  \* AIImageService.huggingface_api_key is non-empty
    openai_api_key,       \* AIImageService.openai_api_key is non-empty
    imgCall,              \* the arguments of the last generate_image call
    imgRet,               \* what that call returned or raised
    imgLog,               \* the network requests that call made, in order
    seoIn,                \* the content (or request) an SEOContentService call is about
    seoCall,              \* the method called and its other arguments
    seoRet,               \* what that call returned or raised
    random,               \* what the random module gives to the draws of the call
                          \* (of the next pass of the loop, for a calendar)
    calendar,             \* generate_content_calendar: the entries appended so far
    calDay,               \* generate_content_calendar: the loop variable `day`
    clock,                \* generate_content_calendar: the last reading of datetime.now()
    accounts,             \* table social_media_accounts: the rows, in order of their ids
    posts,                \* table social_media_posts: the rows, in order of their ids
    sent,                 \* the requests made to the Graph API, in order
    request,              \* the HTTP request that arrived in the last step, if one did
    response,             \* the response the server gave in the last step, if it gave one
    served,               \* the number of requests the server has received
    images,               \* the rows of the table ai_image_generations
    workers               \* the threads of the server: where each is in its handler
                          \* and the rows it holds

imgVars == <<huggingface_api_key, openai_api_key, imgCall, imgRet, imgLog>>

seoVars == <<seoIn, seoCall, seoRet, random>>

calVars == <<calendar, calDay, clock>>

webVars == <<accounts, posts, sent, request, response, served, images, workers>>

vars == <<imgVars, seoVars, calVars, webVars>>

NoCall == [op |-> "none"]
NoRet == [kind |-> "none"]
NoDraws == [skip |-> FALSE]
NoClock == [day |-> 0, hour |-> 0, minute |-> 0, second |-> 0, microsecond |-> 0]

\* no calendar is being built
CalIdle ==
    /\ calendar = <<>>
    /\ calDay = 0
    /\ clock = NoClock

NoRequest == [op |-> "none"]
NoResponse == [code |-> 0]

\* the database is empty and no request has been received
WebIdle ==
    /\ accounts = <<>>
    /\ posts = <<>>
    /\ sent = <<>>
    /\ request = NoRequest
    /\ response = NoResponse
    /\ served = 0
    /\ images = <<>>
    /\ workers = <<>>

(***************************************************************************)
(* Results of a Python call: a returned value or a raised exception,       *)
(* together with the requests made so far.                                 *)
(***************************************************************************)
Return(v, log) == [kind |-> "return", val |-> v, log |-> log]
Raise(msg, log) == [kind |-> "raise", val |-> msg, log |-> log]

(***************************************************************************)
(*                            AIImageService                               *)
(***************************************************************************)

\* The longest chain of requests of one call: the OpenAI generation request,
\* the download of its image, and the request to Pollination.
MaxRequests == 3

\* What one HTTP request can come to: status 200 and the image stored,
\* another status, an exception of the HTTP client (timeout, connection
\* error), or status 200 with save_image failing on the local disk.
Outcomes == {"ok", "http_error", "exception", "save_error"}

Status200(o) == o \in {"ok", "save_error"}

Providers == {"auto", "huggingface", "openai", "pollination", "stability"}

Models == {"stable-diffusion-v1-5", "my-org/custom-model"}

\* self.models['huggingface'].get(model, model)
HFModelId(model) ==
    CASE model = "stable-diffusion-v1-5" -> "runwayml/stable-diffusion-v1-5"
      [] model = "stable-diffusion-xl" -> "stabilityai/stable-diffusion-xl-base-1.0"
      [] model = "stable-diffusion-2-1" -> "stabilityai/stable-diffusion-2-1"
      [] OTHER -> model

Success(provider, model) ==
    [success |-> TRUE, image_url |-> "/generated_images/" \o provider \o ".png",
     provider |-> provider, model |-> model, error |-> ""]

Failure(error, provider, model) ==
    [success |-> FALSE, image_url |-> "None",
     provider |-> provider, model |-> model, error |-> error]

Request(to, what, o) == [to |-> to, req |-> what, outcome |-> o]

select_best_provider(hfKey) ==
    IF hfKey THEN "huggingface" ELSE "pollination"

generate_with_huggingface(model, net, log) ==
    LET o == net[Len(log) + 1]
        log1 == Append(log, Request("huggingface", "generate", o))
    IN  IF o = "exception" THEN Raise("ConnectionError: api-inference.huggingface.co", log1)
        ELSE IF Status200(o)
             THEN IF o = "save_error" THEN Raise("OSError: huggingface image file", log1)
                  ELSE Return(Success("huggingface", HFModelId(model)), log1)
             ELSE Raise("Hugging Face API error", log1)

generate_with_pollination(model, net, log) ==
    LET o == net[Len(log) + 1]
        log1 == Append(log, Request("pollination", "generate", o))
    IN  IF o = "exception" THEN Raise("ConnectionError: image.pollinations.ai", log1)
        ELSE IF Status200(o)
             THEN IF o = "save_error" THEN Raise("OSError: pollination image file", log1)
                  ELSE Return(Success("pollination", "flux"), log1)
             ELSE Raise("Pollination API error", log1)

generate_with_openai(oaKey, net, log) ==
    IF ~oaKey THEN Raise("OpenAI API key not available", log)
    ELSE
    LET o == net[Len(log) + 1]
        log1 == Append(log, Request("openai", "generate", o))
    IN  IF o = "exception" THEN Raise("ConnectionError: api.openai.com", log1)
        ELSE IF Status200(o)
             THEN LET d == net[Len(log1) + 1]
                      log2 == Append(log1, Request("openai", "download", d))
                  IN  IF d = "exception" THEN Raise("ConnectionError: openai image url", log2)
                      ELSE IF d = "save_error" THEN Raise("OSError: openai image file", log2)
                      ELSE Return(Success("openai", "dall-e-3"), log2)
             ELSE Raise("OpenAI API error", log1)

generate_with_fallback(model, net, log) ==
    LET r == generate_with_pollination(model, net, log)
    IN  IF r.kind = "return" THEN r
        ELSE Raise("All free image generation services are currently unavailable",
                   r.log)

\* The try block of generate_image: the dispatch on the provider.
Dispatch(provider, model, oaKey, net) ==
    CASE provider = "huggingface" -> generate_with_huggingface(model, net, <<>>)
      [] provider = "pollination" -> generate_with_pollination(model, net, <<>>)
      [] provider = "openai" -> generate_with_openai(oaKey, net, <<>>)
      [] OTHER -> generate_with_fallback(model, net, <<>>)

\* The except block of generate_image, entered with the exception e = r.val.
ExceptBlockRelabels(r, provider, model, net) ==
    IF provider # "pollination"
    THEN LET r2 == generate_with_pollination(model, net, r.log)
         IN  IF r2.kind = "return"
             THEN Return([r2.val EXCEPT !.provider = provider], r2.log)
             ELSE Return(Failure(r.val, provider, model), r2.log)
    ELSE Return(Failure(r.val, provider, model), r.log)

ExceptBlock(r, provider, model, net) ==
    IF provider # "pollination"
    THEN LET r2 == generate_with_pollination(model, net, r.log)
         IN  IF r2.kind = "return" THEN r2
             ELSE Return(Failure(r.val, provider, model), r2.log)
    ELSE Return(Failure(r.val, provider, model), r.log)

generate_image(model, arg, hfKey, oaKey, net) ==
    LET provider == IF arg = "auto" THEN select_best_provider(hfKey) ELSE arg
        r == Dispatch(provider, model, oaKey, net)
    IN  IF r.kind = "return" THEN r
        ELSE ExceptBlock(r, provider, model, net)

\* The provider generate_image dispatches on, after 'auto' is resolved.
Selected(call) ==
    IF call.provider = "auto" THEN select_best_provider(huggingface_api_key)
    ELSE call.provider

ImgInit ==
    /\ huggingface_api_key \in BOOLEAN
    /\ openai_api_key \in BOOLEAN
    /\ imgCall = NoCall
    /\ imgRet = NoRet
    /\ imgLog = <<>>
    /\ seoIn = NoCall
    /\ seoCall = NoCall
    /\ seoRet = NoRet
    /\ random = NoDraws
    /\ CalIdle
    /\ WebIdle

GenerateImage ==
    \E model \in Models, arg \in Providers, net \in [1..MaxRequests -> Outcomes] :
        LET r == generate_image(model, arg, huggingface_api_key, openai_api_key, net)
        IN  /\ imgCall' = [op |-> "generate_image", model |-> model, provider |-> arg]
            /\ imgRet' = [kind |-> r.kind, val |-> r.val]
            /\ imgLog' = r.log
            /\ UNCHANGED <<huggingface_api_key, openai_api_key, seoVars, calVars, webVars>>

ImgNext == GenerateImage

SpecImage == ImgInit /\ [][ImgNext]_vars

(***************************************************************************)
(*                     Properties of AIImageService                        *)
(***************************************************************************)

NonFree == {"huggingface", "openai"}

Called == imgCall # NoCall

\* Request i ended with an image stored: a generation request of Hugging
\* Face or Pollination, or the download after OpenAI's generation request,
\* answered 200 with the image and save_image succeeded.  (A download
\* answered with another status stores the body of the error, no image.)
Stored(i) ==
    IF imgLog[i].req = "download"
    THEN imgLog[i].outcome = "ok"
    ELSE imgLog[i].to # "openai" /\ imgLog[i].outcome = "ok"

ImageProduced == \E i \in DOMAIN imgLog : Stored(i)

PollinationRequests == {i \in DOMAIN imgLog : imgLog[i].to = "pollination"}

\* The selected provider was huggingface or openai and failed: none of its
\* requests ended with an image stored (a status other than 200 on the
\* generation request or on the download, an exception, a timeout, a
\* failed save, or no OpenAI key).
FellBack ==
    /\ Called
    /\ Selected(imgCall) \in NonFree
    /\ ~(\E i \in DOMAIN imgLog : imgLog[i].to = Selected(imgCall) /\ Stored(i))

\* The texts str(e) can have for an exception raised by the provider's own
\* request procedure.
ErrorsOf(p) ==
    CASE p = "huggingface" ->
            {"ConnectionError: api-inference.huggingface.co",
             "OSError: huggingface image file", "Hugging Face API error"}
      [] p = "openai" ->
            {"OpenAI API key not available", "ConnectionError: api.openai.com",
             "ConnectionError: openai image url", "OSError: openai image file",
             "OpenAI API error"}
      [] OTHER -> {}

\* C2: generate_image never raises: every call returns a result record, and
\* when no request produced an image the record has success = False and a
\* non-empty error description.
C2_NeverRaises ==
    Called =>
        /\ imgRet.kind = "return"
        /\ imgRet.val.success \in BOOLEAN
        /\ (~ImageProduced => (~imgRet.val.success /\ imgRet.val.error # ""))

\* C3: when the selected non-free provider fails and the request to
\* Pollination that follows succeeds, the call returns success = True with
\* provider = 'pollination'.
C3_FallbackSuccess ==
    (/\ FellBack
     /\ Len(imgLog) > 0
     /\ imgLog[Len(imgLog)] = Request("pollination", "generate", "ok"))
    => /\ imgRet.kind = "return"
       /\ imgRet.val.success
       /\ imgRet.val.provider = "pollination"

\* C3 witness: Hugging Face answered with an error status, Pollination with
\* an image.
C3_Witness ==
    /\ Called
    /\ Selected(imgCall) = "huggingface"
    /\ imgLog = <<Request("huggingface", "generate", "http_error"),
                  Request("pollination", "generate", "ok")>>
    /\ imgRet.kind = "return"

\* C4: when a non-free provider fails, exactly one request goes to
\* Pollination before the call returns; if it fails too, the returned record
\* has success = False and its error and provider are those of the provider
\* selected first.
C4_OneFallback ==
    FellBack =>
        /\ Cardinality(PollinationRequests) = 1
        /\ imgRet.kind = "return"
        /\ (~ImageProduced =>
               /\ ~imgRet.val.success
               /\ imgRet.val.provider = Selected(imgCall)
               /\ imgRet.val.error \in ErrorsOf(Selected(imgCall)))

\* C5: a failure of the free provider is terminal: with provider
\* 'pollination' or an unrecognised name, no request follows a failed
\* request to Pollination within the call.
C5_FreeFailureTerminal ==
    (Called /\ Selected(imgCall) \notin NonFree) =>
        \A i \in DOMAIN imgLog :
            (imgLog[i].to = "pollination" /\ imgLog[i].outcome # "ok")
                => i = Len(imgLog)

\* C11: with provider 'auto' the first request goes to a provider whose
\* credential is configured whenever the Hugging Face or the OpenAI key is
\* configured; it goes to the free provider only when neither is.
C11_AutoPrefersCredential ==
    (Called /\ imgCall.provider = "auto" /\ Len(imgLog) > 0) =>
        IF huggingface_api_key \/ openai_api_key
        THEN \/ huggingface_api_key /\ imgLog[1].to = "huggingface"
             \/ openai_api_key /\ imgLog[1].to = "openai"
        ELSE imgLog[1].to = "pollination"

\* C12 as stated: a call makes at most two requests, the first to the
\* selected provider and the second, only after that one failed, to the
\* free provider.
C12_AtMostTwo ==
    Called =>
        /\ Len(imgLog) <= 2
        /\ Len(imgLog) = 2 => (imgLog[2].to = "pollination" /\ ~Stored(1))

(***************************************************************************)
(*                          Python string methods                          *)
(***************************************************************************)

UpperChars == "ABCDEFGHIJKLMNOPQRSTUVWXYZ"
LowerChars == "abcdefghijklmnopqrstuvwxyz"

LowerTable ==
    [c \in {SubSeq(UpperChars, k, k) : k \in 1..Len(UpperChars)} |->
        LET k == CHOOSE k \in 1..Len(UpperChars) : SubSeq(UpperChars, k, k) = c
        IN  SubSeq(LowerChars, k, k)]

LowerChar(c) == IF c \in DOMAIN LowerTable THEN LowerTable[c] ELSE c

\* str.lower(), character by character (split in halves to bound the depth)
RECURSIVE lower(_)
lower(s) ==
    IF Len(s) <= 1 THEN LowerChar(s)
    ELSE LET h == Len(s) \div 2
         IN  lower(SubSeq(s, 1, h)) \o lower(SubSeq(s, h + 1, Len(s)))

\* sub in s
Contains(sub, s) ==
    \E i \in 1..(Len(s) - Len(sub) + 1) : SubSeq(s, i, i + Len(sub) - 1) = sub

Min(a, b) == IF a <= b THEN a ELSE b
Max(a, b) == IF a >= b THEN a ELSE b
Abs(a) == IF a >= 0 THEN a ELSE 0 - a

(***************************************************************************)
(*                 SEOContentService: configuration tables                 *)
(***************************************************************************)

location_keywords_primary ==
    <<"Windsor", "Essex County", "Windsor-Essex", "Windsor Ontario",
      "Essex", "Kingsville", "Leamington", "Tecumseh", "LaSalle",
      "Amherstburg", "Belle River", "Harrow">>

\* real_estate_keywords: the 'primary' list, then the 'long_tail' list
real_estate_keywords ==
    <<"real estate", "homes for sale", "property", "house", "listing",
      "real estate agent", "realtor", "home buyer", "home seller",
      "property investment", "housing market",
      "first time home buyer", "luxury homes", "investment property",
      "market trends", "home valuation", "property search",
      "real estate market analysis", "home buying tips",
      "selling your home", "property investment opportunities">>

Platforms == {"instagram", "facebook"}

\* hashtag_strategies[platform]['count']
CountRange(platform) ==
    IF platform = "instagram" THEN <<8, 12>> ELSE <<2, 5>>

(***************************************************************************)
(*                    SEOContentService: the two scores                    *)
(***************************************************************************)

seo_cta_indicators == {"dm", "message", "contact", "call", "visit", "schedule", "book"}
seo_engagement_indicators == {"?", "!", "comment", "share", "tag", "save"}

LengthPoints(n) ==
    IF 100 <= n /\ n <= 300 THEN 20
    ELSE IF (50 <= n /\ n < 100) \/ (300 < n /\ n <= 500) THEN 15
    ELSE IF n > 500 THEN 10
    ELSE 0

\* "Location mention (20 points)"
SeoLocationPoints(content_lower, location) ==
    IF Contains(lower(location), content_lower) THEN 20 ELSE 0

\* "Real estate keywords (30 points)"
SeoKeywordPoints(content_lower) ==
    LET keyword_count ==
            Cardinality({k \in DOMAIN real_estate_keywords :
                            Contains(lower(real_estate_keywords[k]), content_lower)})
    IN  Min(keyword_count * 3, 30)

\* "Call to action (15 points)"
SeoCtaPoints(content_lower) ==
    IF \E ind \in seo_cta_indicators : Contains(ind, content_lower)
    THEN 15 ELSE 0

calculate_seo_score(content, location, content_type) ==
    LET content_lower == lower(content)
        engagement_count ==
            Cardinality({ind \in seo_engagement_indicators : Contains(ind, content_lower)})
        score == SeoLocationPoints(content_lower, location)
                 + SeoKeywordPoints(content_lower) + LengthPoints(Len(content))
                 + SeoCtaPoints(content_lower) + Min(engagement_count * 3, 15)
    IN  Min(score, 100)

\* "Hashtag optimization (30 points)" of the engagement score
HashtagFitNoFloor(hashtag_count, platform) ==
    LET optimal_range == CountRange(platform)
    IN  IF optimal_range[1] <= hashtag_count /\ hashtag_count <= optimal_range[2]
        THEN 30
        ELSE 30 - Min(Abs(hashtag_count - optimal_range[1]),
                      Abs(hashtag_count - optimal_range[2])) * 5

HashtagFit(hashtag_count, platform) ==
    LET optimal_range == CountRange(platform)
    IN  IF optimal_range[1] <= hashtag_count /\ hashtag_count <= optimal_range[2]
        THEN 30
        ELSE LET distance == Min(Abs(hashtag_count - optimal_range[1]),
                                 Abs(hashtag_count - optimal_range[2]))
             IN  Max(30 - distance * 5, 0)

\* "Platform optimization (20 points)" of the engagement score
PlatformPoints(content, platform) ==
    IF platform = "instagram"
    THEN (IF LET content_lower == lower(content)
             IN  \E w \in {"photo", "image", "see", "look", "view"} :
                    Contains(w, content_lower)
          THEN 10 ELSE 0)
         + (IF Len(content) <= 300 THEN 10 ELSE 0)
    ELSE (IF Len(content) >= 100 THEN 10 ELSE 0)
         + (IF Contains("?", content) THEN 10 ELSE 0)

engagement_cta_indicators == {"dm", "message", "contact", "comment", "share", "tag"}

\* The engagement score in tenths of a point: the code adds
\* (seo_score / 100) * 40, a multiple of 0.2, to whole numbers.
\* "Call to action (10 points)" of the engagement score
EngagementCtaPoints(content_lower) ==
    IF \E ind \in engagement_cta_indicators : Contains(ind, content_lower)
    THEN 10 ELSE 0

calculate_engagement_score(content, hashtags, platform) ==
    LET seo_score == calculate_seo_score(content, "Windsor", "general")
        content_lower == lower(content)
        score10 == seo_score * 4
                   + 10 * HashtagFit(Len(hashtags), platform)
                   + 10 * PlatformPoints(content, platform)
                   + 10 * EngagementCtaPoints(content_lower)
    IN  Min(score10, 1000)

(***************************************************************************)
(* The contents the scores are applied to: up to MaxFragments of the       *)
(* fragments below, joined.  The fragments cover every length band and     *)
(* every component of the two rubrics.                                     *)
(***************************************************************************)

MaxFragments == 2

\* The longest hashtag list an engagement score is computed for.
MaxTags == 14

Fragments ==
    {"Great opportunity!",
     "Call or visit us today. ",
     "DM me for more details about this listing in Windsor. ",
     "What do you think? Comment, share, tag and save this photo! Call or visit to schedule and book. ",
     "Lorem ipsum dolor sit amet consectetur adipiscing elit sed do eiusmod tempor incididunt ut labore et dolore magna aliqua ut enim ad minim veniam quis nostrud exercitation ullamco laboris nisi ut aliquip ex ea commodo consequat duis aute irure dolor in reprehenderit in voluptate velit esse cillum ",
     "Real Estate Agent and Realtor: homes for sale, a house, a home buyer, a home seller, property investment opportunities, the housing market, a first time home buyer, luxury homes, investment property, market trends, home valuation, property search, real estate market analysis, home buying tips, selling your home. "}

RECURSIVE Join(_)
Join(parts) == IF parts = <<>> THEN "" ELSE Head(parts) \o Join(Tail(parts))

Contents ==
    {Join(parts) : parts \in UNION {[1..n -> Fragments] : n \in 0..MaxFragments}}

ScoreLocations == {"Windsor", "Essex County", "Harrow"}

TagList(n) == [i \in 1..n |-> "#Tag"]

SeoIdle ==
    /\ seoIn = NoCall
    /\ seoCall = NoCall
    /\ seoRet = NoRet
    /\ random = NoDraws

ImgIdle ==
    /\ huggingface_api_key = FALSE
    /\ openai_api_key = FALSE
    /\ imgCall = NoCall
    /\ imgRet = NoRet
    /\ imgLog = <<>>

ScoreInit ==
    /\ seoIn \in [content : Contents]
    /\ seoCall = NoCall
    /\ seoRet = NoRet
    /\ random = NoDraws
    /\ ImgIdle
    /\ CalIdle
    /\ WebIdle

CalculateSeoScore ==
    /\ seoCall = NoCall
    /\ \E location \in ScoreLocations :
        /\ seoCall' = [op |-> "calculate_seo_score", location |-> location]
        /\ seoRet' = [kind |-> "return",
                      val |-> calculate_seo_score(seoIn.content, location, "general")]
    /\ UNCHANGED <<seoIn, random, imgVars, calVars, webVars>>

CalculateEngagementScore ==
    /\ seoCall = NoCall
    /\ \E n \in 0..MaxTags, platform \in Platforms :
        /\ seoCall' = [op |-> "calculate_engagement_score",
                       hashtags |-> TagList(n), platform |-> platform]
        /\ seoRet' = [kind |-> "return",
                      val |-> calculate_engagement_score(seoIn.content, TagList(n),
                                                         platform)]
    /\ UNCHANGED <<seoIn, random, imgVars, calVars, webVars>>

ScoreNext == CalculateSeoScore \/ CalculateEngagementScore

SpecScore == ScoreInit /\ [][ScoreNext]_vars

\* C8: the SEO score and the engagement score lie in [0, 100] for every
\* content (the empty one included), location, platform and number of
\* hashtags (the engagement score is kept in tenths: [0, 1000]).
C8_ScoresInRange ==
    /\ seoCall.op = "calculate_seo_score" => (0 <= seoRet.val /\ seoRet.val <= 100)
    /\ seoCall.op = "calculate_engagement_score"
           => (0 <= seoRet.val /\ seoRet.val <= 1000)

\* C8 witness: the engagement score of the empty content with a hashtag list
\* far longer than the platform's range, and equal to 0.
C8_Witness ==
    /\ seoCall.op = "calculate_engagement_score"
    /\ seoIn.content = ""
    /\ seoCall.platform = "facebook"
    /\ Len(seoCall.hashtags) = MaxTags
    /\ seoRet.val = 0

(***************************************************************************)
(*              SEOContentService: the optimal posting time                *)
(***************************************************************************)

\* A datetime is [day, hour, minute, second, microsecond]; day counts the
\* calendar days from a Monday, so that weekday() is day % 7.
MaxDay == 7

NowMinutes == {0, 7, 15, 30, 45, 59}
NowSeconds == {0, 30}
NowMicroseconds == {0, 1}

DateTimes ==
    [day : 0..MaxDay, hour : 0..23, minute : NowMinutes, second : NowSeconds,
     microsecond : NowMicroseconds]

weekday(t) == t.day % 7

Seconds(t) == ((t.day * 24 + t.hour) * 60 + t.minute) * 60 + t.second

\* a <= b and a < b on datetimes
DtLeq(a, b) ==
    \/ Seconds(a) < Seconds(b)
    \/ Seconds(a) = Seconds(b) /\ a.microsecond <= b.microsecond

DtLess(a, b) ==
    \/ Seconds(a) < Seconds(b)
    \/ Seconds(a) = Seconds(b) /\ a.microsecond < b.microsecond

\* t + timedelta(days=n)
PlusDays(t, n) == [t EXCEPT !.day = t.day + n]

optimal_posting_times(platform, daytype) ==
    CASE platform = "instagram" /\ daytype = "weekday" -> <<(<<11, 13>>), (<<18, 20>>)>>
      [] platform = "instagram" /\ daytype = "weekend" -> <<(<<10, 12>>)>>
      [] platform = "facebook" /\ daytype = "weekday" -> <<(<<9, 10>>), (<<15, 16>>)>>
      [] platform = "facebook" /\ daytype = "weekend" -> <<(<<12, 13>>)>>

TimeRanges(platform, now) ==
    optimal_posting_times(platform, IF weekday(now) >= 5 THEN "weekend" ELSE "weekday")

TargetMinutes == {0, 15, 30, 45}

\* "If the time has passed today, schedule for tomorrow"
AdvanceIfPassedStrict(target_time, now) ==
    IF DtLess(target_time, now) THEN PlusDays(target_time, 1) ELSE target_time

AdvanceIfPassed(target_time, now) ==
    IF DtLeq(target_time, now) THEN PlusDays(target_time, 1) ELSE target_time

\* strftime('%Y-%m-%d %H:%M:%S'): the microseconds are not printed
strftime_seconds(t) ==
    [day |-> t.day, hour |-> t.hour, minute |-> t.minute, second |-> t.second]

\* range, target_hour and target_minute are the three random draws
get_optimal_posting_time(platform, now, range, target_hour, target_minute) ==
    LET target_time == [now EXCEPT !.hour = target_hour, !.minute = target_minute,
                                   !.second = 0, !.microsecond = 0]
    IN  strftime_seconds(AdvanceIfPassed(target_time, now))

TimeInit ==
    /\ seoIn \in [platform : Platforms, now : DateTimes]
    /\ seoCall = NoCall
    /\ seoRet = NoRet
    /\ random = NoDraws
    /\ ImgIdle
    /\ CalIdle
    /\ WebIdle

GetOptimalPostingTime ==
    /\ seoCall = NoCall
    /\ LET time_ranges == TimeRanges(seoIn.platform, seoIn.now)
       IN  \E r \in DOMAIN time_ranges :
           \E target_hour \in time_ranges[r][1]..(time_ranges[r][2] - 1),
              target_minute \in TargetMinutes :
               /\ seoCall' = [op |-> "get_optimal_posting_time",
                              range |-> time_ranges[r]]
               /\ seoRet' = [kind |-> "return",
                             val |-> get_optimal_posting_time(seoIn.platform, seoIn.now,
                                         time_ranges[r], target_hour, target_minute)]
    /\ UNCHANGED <<seoIn, random, imgVars, calVars, webVars>>

TimeNext == GetOptimalPostingTime

SpecTime == TimeInit /\ [][TimeNext]_vars

\* The datetime a printed posting time denotes.
ParseTime(p) ==
    [day |-> p.day, hour |-> p.hour, minute |-> p.minute, second |-> p.second,
     microsecond |-> 0]

\* C9: for every platform and every current time, the posting time returned
\* is strictly later than the current time read by the call.
C9_StrictlyFuture ==
    seoCall.op = "get_optimal_posting_time" =>
        DtLess(seoIn.now, ParseTime(seoRet.val))

\* C9 witness: the clock stands exactly on the drawn target time, which is
\* therefore moved to the next day.
C9_Witness ==
    /\ seoCall.op = "get_optimal_posting_time"
    /\ seoIn.now.microsecond = 0
    /\ seoIn.now.second = 0
    /\ seoRet.val.hour = seoIn.now.hour
    /\ seoRet.val.minute = seoIn.now.minute
    /\ seoRet.val.day = seoIn.now.day + 1

(***************************************************************************)
(*                 SEOContentService: hashtag selection                    *)
(***************************************************************************)

hashtags_high_volume ==
    <<"#RealEstate", "#HomesForSale", "#Property", "#House",
      "#RealEstateAgent", "#Realtor", "#Home", "#Investment",
      "#Ontario", "#Canada", "#PropertyInvestment">>

hashtags_medium_volume ==
    <<"#WindsorRealEstate", "#EssexCounty", "#WindsorOntario",
      "#WindsorHomes", "#EssexCountyRealEstate", "#LocalRealEstate",
      "#WindsorProperty", "#SouthwestOntario", "#GreatLakesRegion",
      "#BorderCity", "#WindsorEssex">>

hashtags_niche ==
    <<"#WindsorHomeBuyer", "#EssexCountyHomes", "#WindsorPropertyMarket",
      "#LocalRealEstateExpert", "#WindsorInvestment", "#EssexCountyProperty",
      "#WindsorNeighborhoods", "#DetroitWindsorArea", "#WindsorRealtor",
      "#EssexCountyAgent", "#WindsorListings", "#LocalPropertyExpert">>

\* hashtag_strategies[platform]['mix'], in tenths
Mix(platform) ==
    IF platform = "instagram" THEN [high_volume |-> 3, medium_volume |-> 4, niche |-> 3]
    ELSE [high_volume |-> 5, medium_volume |-> 3, niche |-> 2]

\* int(target_count * ratio)
Quota(target_count, tenths) == (target_count * tenths) \div 10

ContentTypes == {"property_showcase", "market_update", "educational", "community"}

\* the tags added for the content type; any other type gets the community tags
TypeHashtags(content_type) ==
    CASE content_type = "property_showcase" ->
            <<"#JustListed", "#NewListing", "#PropertyShowcase">>
      [] content_type = "market_update" ->
            <<"#MarketUpdate", "#RealEstateNews", "#MarketTrends">>
      [] content_type = "educational" ->
            <<"#RealEstateTips", "#HomeBuyingTips", "#RealEstateEducation">>
      [] OTHER -> <<"#CommunityLove", "#LocalBusiness", "#Neighborhood">>

\* s.replace(ch, '') for a single character ch
RECURSIVE Remove(_, _)
Remove(s, ch) ==
    IF Len(s) = 0 THEN ""
    ELSE IF Len(s) = 1 THEN (IF s = ch THEN "" ELSE s)
    ELSE LET h == Len(s) \div 2
         IN  Remove(SubSeq(s, 1, h), ch) \o Remove(SubSeq(s, h + 1, Len(s)), ch)

LocationHashtags(location) ==
    LET location_clean == Remove(Remove(location, " "), "-")
    IN  <<"#" \o location_clean, "#" \o location_clean \o "RealEstate">>

\* random.sample(pool, k): k distinct entries of the pool, any k of them in
\* any order.  The draw `positions` is the sequence of the k positions of
\* the entries returned, counted from 1 and all different.
Sample(pool, k, positions) == [i \in 1..k |-> pool[positions[i]]]

\* The selections of k of n positions, enumerated: the selection of number
\* `index` takes, of the positions not yet taken, the one at index % size,
\* puts the last of them in its place and goes on with index \div size.
\* The numbers 0 .. n * (n - 1) * ... * (n - k + 1) - 1 give every selection
\* once.
RECURSIVE SelectFrom(_, _, _)
SelectFrom(left, k, index) ==
    IF k = 0 THEN <<>>
    ELSE LET size == Len(left)
             j == (index % size) + 1
         IN  <<left[j]>>
             \o SelectFrom([i \in 1..(size - 1) |-> IF i = j THEN left[size] ELSE left[i]],
                           k - 1, index \div size)

Selection(n, k, index) == SelectFrom([i \in 1..n |-> i], k, index)

RECURSIVE Arrangements(_, _)
Arrangements(n, k) == IF k = 0 THEN 1 ELSE n * Arrangements(n - 1, k - 1)

\* set(tags): each tag once.  Kept in order of first occurrence here; the
\* order in which Python iterates the set is drawn in SetOrder.
NoDedup(tags) == tags

RECURSIVE Dedup(_)
Dedup(tags) ==
    IF tags = <<>> THEN <<>>
    ELSE LET front == Dedup(SubSeq(tags, 1, Len(tags) - 1))
             last == tags[Len(tags)]
         IN  IF \E i \in DOMAIN front : front[i] = last THEN front
             ELSE Append(front, last)

\* list(set(...)): the order in which Python iterates a set of strings
\* depends on the hash seed of the process: any order.  The draw `positions`
\* holds every position of elems once: the list is elems in that order.
SetOrder(elems, positions) == [i \in DOMAIN positions |-> elems[positions[i]]]

\* all_hashtags[:target_count]
TrimNothing(tags, n) == tags

Trim(tags, n) == SubSeq(tags, 1, Min(n, Len(tags)))

\* the lengths of the three samples
SampleSizes(platform, target_count) ==
    LET strategy == Mix(platform)
        high_count == Quota(target_count, strategy.high_volume)
        medium_count == Quota(target_count, strategy.medium_volume)
        niche_count == target_count - high_count - medium_count
    IN  <<Min(high_count, Len(hashtags_high_volume)),
          Min(medium_count, Len(hashtags_medium_volume)),
          Min(niche_count, Len(hashtags_niche))>>

\* selected_hashtags: the three samples and the tags of the content type
SelectedHashtags(content_type, platform, target_count, samples) ==
    LET k == SampleSizes(platform, target_count)
    IN  Sample(hashtags_high_volume, k[1], samples[1])
        \o Sample(hashtags_medium_volume, k[2], samples[2])
        \o Sample(hashtags_niche, k[3], samples[3])
        \o TypeHashtags(content_type)

\* target_count, the positions of the three samples and the order of the set
\* are the random draws; the result is the returned list.
generate_hashtags(content_type, platform, location, target_count, samples, set_order) ==
    LET selected_hashtags ==
            SelectedHashtags(content_type, platform, target_count, samples)
        unique == Dedup(selected_hashtags \o LocationHashtags(location))
        all_hashtags == SetOrder(unique, set_order)
    IN  Trim(all_hashtags, target_count)

\* The locations hashtags are generated for: plain, with a space, with a
\* hyphen; the first three give tags that are also in the medium-volume pool.
HashtagLocations == {"Windsor", "Essex County", "Windsor-Essex", "Harrow"}

(***************************************************************************)
(* The draws of a call.  The operators above take any draw; the action     *)
(* takes the draws of its call from `random`, and the draws the runs       *)
(* start with are bounded: of each sample the selections of number         *)
(* 0..MaxSelection, of the set the orders of number 0..MaxSetOrder.        *)
(***************************************************************************)

MaxSelection == 2

MaxSetOrder == 3

\* the draws of one call with the draw target_count and the samples `samples`
WithSetOrders(content_type, platform, location, target_count, samples, max_order) ==
    LET m == Len(Dedup(SelectedHashtags(content_type, platform, target_count, samples)
                       \o LocationHashtags(location)))
    IN  {[target_count |-> target_count, samples |-> samples,
          set_order |-> Selection(m, m, o)] : o \in 0..max_order}

SampleDraws(platform, target_count, max_selection) ==
    LET k == SampleSizes(platform, target_count)
    IN  {<<Selection(Len(hashtags_high_volume), k[1], i1),
           Selection(Len(hashtags_medium_volume), k[2], i2),
           Selection(Len(hashtags_niche), k[3], i3)>> :
            i1 \in 0..max_selection, i2 \in 0..max_selection, i3 \in 0..max_selection}

HashtagDraws(content_type, platform, location, max_selection, max_order) ==
    UNION {UNION {WithSetOrders(content_type, platform, location, target_count,
                                samples, max_order) :
                     samples \in SampleDraws(platform, target_count, max_selection)} :
              target_count \in CountRange(platform)[1]..CountRange(platform)[2]}

\* The draws of one call, enumerated: the draw of number `index` has the
\* target count of number index % (number of counts), and so on through
\* the three samples and the order of the set.
HashtagDraw(content_type, platform, location, index) ==
    LET count == CountRange(platform)
        counts == count[2] - count[1] + 1
        target_count == count[1] + (index % counts)
        k == SampleSizes(platform, target_count)
        i1 == index \div counts
        i2 == i1 \div Arrangements(Len(hashtags_high_volume), k[1])
        i3 == i2 \div Arrangements(Len(hashtags_medium_volume), k[2])
        o == i3 \div Arrangements(Len(hashtags_niche), k[3])
        samples == <<Selection(Len(hashtags_high_volume), k[1], i1),
                     Selection(Len(hashtags_medium_volume), k[2], i2),
                     Selection(Len(hashtags_niche), k[3], i3)>>
        m == Len(Dedup(SelectedHashtags(content_type, platform, target_count, samples)
                       \o LocationHashtags(location)))
    IN  [target_count |-> target_count, samples |-> samples,
         set_order |-> Selection(m, m, o)]

HashtagInit ==
    /\ seoIn \in [content_type : ContentTypes \cup {"general"},
                  platform : Platforms, location : HashtagLocations]
    /\ seoCall = NoCall
    /\ seoRet = NoRet
    /\ random \in HashtagDraws(seoIn.content_type, seoIn.platform, seoIn.location,
                               MaxSelection, MaxSetOrder)
    /\ ImgIdle
    /\ CalIdle
    /\ WebIdle

GenerateHashtags ==
    /\ seoCall = NoCall
    /\ seoCall' = [op |-> "generate_hashtags", target_count |-> random.target_count]
    /\ seoRet' = [kind |-> "return",
                  val |-> generate_hashtags(seoIn.content_type, seoIn.platform,
                              seoIn.location, random.target_count, random.samples,
                              random.set_order)]
    /\ UNCHANGED <<seoIn, random, imgVars, calVars, webVars>>

HashtagNext == GenerateHashtags

SpecHashtags == HashtagInit /\ [][HashtagNext]_vars

NoDuplicates(seq) == \A i, j \in DOMAIN seq : i # j => seq[i] # seq[j]

\* C1: for every category, platform and location the hashtag list returned
\* is no longer than the platform's maximum tag count and holds no tag twice.
C1_HashtagsBounded ==
    seoCall.op = "generate_hashtags" =>
        /\ Len(seoRet.val) <= CountRange(seoIn.platform)[2]
        /\ NoDuplicates(seoRet.val)

\* C1 witness: a list of the maximum length for Instagram that holds the
\* location tag #WindsorRealEstate, which the sample of the medium-volume
\* pool has drawn as well.
C1_Witness ==
    /\ seoCall.op = "generate_hashtags"
    /\ seoIn.platform = "instagram"
    /\ seoIn.location = "Windsor"
    /\ \E i \in DOMAIN random.samples[2] :
          hashtags_medium_volume[random.samples[2][i]] = "#WindsorRealEstate"
    /\ Len(seoRet.val) = CountRange("instagram")[2]
    /\ \E i \in DOMAIN seoRet.val : seoRet.val[i] = "#WindsorRealEstate"

(***************************************************************************)
(*        Python dicts, str.format and str.title, as the code uses them    *)
(***************************************************************************)

\* A dict is the sequence of its <<key, value>> items.
Has(d, k) == \E i \in DOMAIN d : d[i][1] = k
Lookup(d, k) == d[CHOOSE i \in DOMAIN d : d[i][1] = k][2]
Get(d, k, default) == IF Has(d, k) THEN Lookup(d, k) ELSE default
Put(d, k, v) ==
    IF Has(d, k) THEN [i \in DOMAIN d |-> IF d[i][1] = k THEN <<k, v>> ELSE d[i]]
    ELSE Append(d, <<k, v>>)

Ok(v) == [kind |-> "return", val |-> v]
Err(e) == [kind |-> "raise", val |-> e]

\* A template is the sequence of its literal parts and its replacement
\* fields, a field being written "{name}".
IsField(part) == Len(part) >= 2 /\ SubSeq(part, 1, 1) = "{"
FieldName(part) == SubSeq(part, 2, Len(part) - 1)

\* template.format(**kwargs): KeyError when a field has no value
Format(template, kwargs) ==
    IF \E i \in DOMAIN template :
            IsField(template[i]) /\ ~Has(kwargs, FieldName(template[i]))
    THEN Err("KeyError")
    ELSE Ok(Join([i \in DOMAIN template |->
                    IF IsField(template[i]) THEN Lookup(kwargs, FieldName(template[i]))
                    ELSE template[i]]))

UpperTable ==
    [c \in {SubSeq(LowerChars, k, k) : k \in 1..Len(LowerChars)} |->
        LET k == CHOOSE k \in 1..Len(LowerChars) : SubSeq(LowerChars, k, k) = c
        IN  SubSeq(UpperChars, k, k)]

IsLetter(c) == c \in DOMAIN UpperTable \/ c \in DOMAIN LowerTable

\* str.title() of the characters lo..hi of s: a letter is put in upper case
\* when the character before it is not a letter, in lower case otherwise
RECURSIVE TitleRange(_, _, _)
TitleRange(s, lo, hi) ==
    IF lo > hi THEN ""
    ELSE IF lo = hi
    THEN LET c == SubSeq(s, lo, lo)
         IN  IF lo > 1 /\ IsLetter(SubSeq(s, lo - 1, lo - 1)) THEN LowerChar(c)
             ELSE IF c \in DOMAIN UpperTable THEN UpperTable[c] ELSE c
    ELSE LET h == (lo + hi) \div 2
         IN  TitleRange(s, lo, h) \o TitleRange(s, h + 1, hi)

title(s) == TitleRange(s, 1, Len(s))

\* random.choice(options) for the draw r
Pick(options, r) == options[(r % Len(options)) + 1]

(***************************************************************************)
(*               SEOContentService: templates and phrase pools             *)
(***************************************************************************)

hooks_property_showcase ==
    <<<<"* Just listed in ", "{location}", "!">>,
      <<"* New on the market:">>,
      <<"* Hot property alert!">>,
      <<"* Hidden gem discovered:">>,
      <<"* Featured listing:">>>>

structures_property_showcase ==
    <<<<"{hook}", "\n\n", "{property_description}", "\n\n* ", "{price_info}", "\n* ",
        "{location_details}", "\n\n", "{call_to_action}">>,
      <<"{hook}", "\n\n", "{key_features}", "\n\n", "{neighborhood_info}", "\n\n",
        "{call_to_action}">>,
      <<"{hook}", "\n\n", "{property_description}", "\n\n", "{investment_angle}", "\n\n",
        "{call_to_action}">>>>

hooks_market_update ==
    <<<<"* ", "{location}", " Market Update:">>,
      <<"* What's happening in ", "{location}", ":">>,
      <<"** ", "{location}", " Real Estate Trends:">>,
      <<"* Market Insight for ", "{location}", ":">>,
      <<"* Your ", "{location}", " Market Report:">>>>

structures_market_update ==
    <<<<"{hook}", "\n\n", "{market_data}", "\n\n", "{analysis}", "\n\n", "{advice}", "\n\n",
        "{call_to_action}">>,
      <<"{hook}", "\n\n", "{trend_summary}", "\n\n", "{impact_explanation}", "\n\n",
        "{call_to_action}">>>>

hooks_educational ==
    <<<<"* Home Buying Tip:">>,
      <<"* Real Estate Education:">>,
      <<"* Did you know?">>,
      <<"* Wondering about ", "{topic}", "?">>,
      <<"* Common question:">>>>

structures_educational ==
    <<<<"{hook}", "\n\n", "{educational_content}", "\n\n", "{practical_application}", "\n\n",
        "{call_to_action}">>,
      <<"{hook}", "\n\n", "{myth_busting}", "\n\n", "{correct_information}", "\n\n",
        "{call_to_action}">>>>

hooks_community ==
    <<<<"** Love our ", "{location}", " community!">>,
      <<"* Spotlight on ", "{location}", ":">>,
      <<"** Why ", "{location}", " is special:">>,
      <<"* Local favorite in ", "{location}", ":">>,
      <<"* Celebrating ", "{location}", ":">>>>

structures_community ==
    <<<<"{hook}", "\n\n", "{community_feature}", "\n\n", "{personal_connection}", "\n\n",
        "{call_to_action}">>,
      <<"{hook}", "\n\n", "{local_business_spotlight}", "\n\n", "{community_value}", "\n\n",
        "{call_to_action}">>>>

cta_property_inquiry ==
    <<"DM me for more details! *",
      "Ready to schedule a viewing? Let's chat! *",
      "Questions about this property? I'm here to help! *",
      "Want to know more? Send me a message! *",
      "Interested? Let's discuss your options! *">>

cta_market_consultation ==
    <<"Want a personalized market analysis? Let's connect! *",
      "Curious about your home's value? Let's talk! *",
      "Ready to explore the market? I'm here to guide you! **",
      "Need market insights for your area? Reach out! *",
      "Planning your next move? Let's strategize! *">>

cta_general_engagement ==
    <<"What are your thoughts? Share in the comments! *",
      "Have questions? Drop them below! **",
      "Tag someone who needs to see this! *",
      "Save this post for later! *",
      "Share your experience in the comments! *">>

base_prompts_property_showcase ==
    <<<<"Professional real estate photography of a beautiful ", "{property_type}", " exterior in ",
        "{location}", ", Ontario, Canada">>,
      <<"High-quality interior shot of a modern ", "{room}",
        " with natural lighting, real estate photography style">>,
      <<"Stunning curb appeal photo of a well-maintained home in ", "{location}",
        ", professional real estate marketing">>>>

base_prompts_market_update ==
    <<<<"Professional infographic showing real estate market trends for ", "{location}",
        ", clean modern design">>,
      <<"Aerial view of ", "{location}",
        " neighborhood showing residential properties, professional photography">>,
      <<"Modern real estate market analysis chart with ", "{location}",
        " data, professional business style">>>>

base_prompts_educational ==
    <<<<"Professional real estate consultation scene with agent and clients reviewing documents">>,
      <<"Clean, modern infographic explaining ", "{topic}", " for real estate, educational style">>,
      <<"Professional real estate office setting with educational materials and charts">>>>

base_prompts_community ==
    <<<<"Beautiful community scene in ", "{location}",
        ", Ontario showing local businesses and residents">>,
      <<"Scenic view of ", "{location}",
        " neighborhood highlighting community features and amenities">>,
      <<"Local ", "{location}", " landmark or community gathering place, professional photography">>>>

quality_enhancers ==
    <<"professional photography",
      "high resolution",
      "excellent lighting",
      "commercial quality",
      "sharp focus",
      "real estate marketing style">>

property_types ==
    <<"family home", "condo", "townhouse", "luxury home", "starter home",
      "investment property">>

features ==
    <<"updated kitchen", "spacious bedrooms", "beautiful backyard", "modern finishes",
      "great location", "move-in ready">>

trends ==
    <<"steady growth", "increased activity", "strong demand", "balanced market",
      "buyer opportunities">>

topics ==
    <<"home inspection", "mortgage pre-approval", "market timing", "property valuation",
      "negotiation strategies">>

community_features ==
    <<"local businesses", "parks and recreation", "schools", "cultural events",
      "dining scene">>

\* self.content_templates.get(content_type, self.content_templates['community'])
Hooks(content_type) ==
    CASE content_type = "property_showcase" -> hooks_property_showcase
      [] content_type = "market_update" -> hooks_market_update
      [] content_type = "educational" -> hooks_educational
      [] OTHER -> hooks_community

Structures(content_type) ==
    CASE content_type = "property_showcase" -> structures_property_showcase
      [] content_type = "market_update" -> structures_market_update
      [] content_type = "educational" -> structures_educational
      [] OTHER -> structures_community

CtaTemplates(content_type) ==
    CASE content_type = "property_showcase" -> cta_property_inquiry
      [] content_type = "market_update" -> cta_market_consultation
      [] OTHER -> cta_general_engagement

(***************************************************************************)
(*                   SEOContentService: the content body                   *)
(* rnd holds the random draws of a call: rnd.hook, rnd.structure, rnd.cta  *)
(* and rnd.pool, the draws from the phrase pools in the order of the code. *)
(***************************************************************************)

generate_property_content(location, custom_data, rnd) ==
    LET property_type == Get(custom_data, "property_type",
                             Pick(property_types, rnd.pool[1]))
    IN  <<<<"property_description",
            "Beautiful " \o property_type \o " in the heart of " \o location
            \o ". This property offers everything you're looking for in your next home.">>,
          <<"key_features",
            "* Key features:\n* " \o title(Pick(features, rnd.pool[2]))
            \o "\n* " \o title(Pick(features, rnd.pool[3]))
            \o "\n* " \o title(Pick(features, rnd.pool[4]))>>,
          <<"price_info", Get(custom_data, "price", "Competitively priced")>>,
          <<"location_details",
            "Located in desirable " \o location
            \o ", close to amenities and transportation.">>,
          <<"neighborhood_info",
            location \o " offers the perfect blend of community charm and urban convenience.">>,
          <<"investment_angle",
            "Excellent investment opportunity in " \o location \o "'s growing market.">>>>

generate_market_content(location, custom_data, rnd) ==
    <<<<"market_data",
        "Recent data shows " \o Pick(trends, rnd.pool[1]) \o " in the " \o location
        \o " real estate market.">>,
      <<"trend_summary",
        "The " \o location
        \o " market continues to show positive indicators for both buyers and sellers.">>,
      <<"analysis",
        "What this means: " \o location
        \o " remains an attractive market for real estate investment and homeownership.">>,
      <<"impact_explanation",
        "These trends indicate continued stability and growth potential in "
        \o location \o ".">>,
      <<"advice", "Now is a great time to explore your options in this market.">>>>

generate_educational_content(location, custom_data, rnd) ==
    LET topic == Get(custom_data, "topic", Pick(topics, rnd.pool[1]))
    IN  <<<<"educational_content",
            "Understanding " \o topic \o " is crucial for success in the " \o location
            \o " real estate market.">>,
          <<"practical_application",
            "Here's how this applies to your " \o location \o " property search or sale.">>,
          <<"myth_busting",
            "Common myth: " \o topic \o " isn't important in smaller markets like "
            \o location \o ".">>,
          <<"correct_information",
            "Reality: " \o topic \o " is just as important in " \o location
            \o " as anywhere else.">>>>

generate_community_content(location, custom_data, rnd) ==
    LET feature == Get(custom_data, "feature", Pick(community_features, rnd.pool[1]))
    IN  <<<<"community_feature",
            "One of the things I love most about " \o location \o " is our amazing "
            \o feature \o ".">>,
          <<"local_business_spotlight",
            "Shoutout to the incredible " \o feature \o " that make " \o location
            \o " special!">>,
          <<"personal_connection",
            "As a local real estate professional, I'm proud to call " \o location
            \o " home.">>,
          <<"community_value",
            "This is what makes " \o location
            \o " such a desirable place to live and invest.">>>>

\* random.choice(template['hooks']).format(location=location, **custom_data):
\* TypeError when custom_data has a 'location' of its own, KeyError when the
\* hook names a field custom_data does not give
FormatHook(hook, location, custom_data) ==
    IF Has(custom_data, "location") THEN Err("TypeError")
    ELSE Format(hook, Append(custom_data, <<"location", location>>))

ContentData(content_type, location, custom_data, rnd) ==
    CASE content_type = "property_showcase" ->
            generate_property_content(location, custom_data, rnd)
      [] content_type = "market_update" ->
            generate_market_content(location, custom_data, rnd)
      [] content_type = "educational" ->
            generate_educational_content(location, custom_data, rnd)
      [] OTHER -> generate_community_content(location, custom_data, rnd)

generate_content_body(content_type, location, custom_data, rnd) ==
    LET hook == FormatHook(Pick(Hooks(content_type), rnd.hook), location, custom_data)
        structure == Pick(Structures(content_type), rnd.structure)
        call_to_action == Pick(CtaTemplates(content_type), rnd.cta)
        content_data ==
            Put(Put(ContentData(content_type, location, custom_data, rnd),
                    "hook", hook.val),
                "call_to_action", call_to_action)
        formatted == Format(structure, content_data)
    IN  IF hook.kind = "raise" THEN hook
        ELSE IF formatted.kind = "return" THEN formatted
        ELSE Ok(hook.val \o "\n\n"
                \o Get(content_data, "description",
                       "Great opportunity in " \o location \o "!")
                \o "\n\n" \o call_to_action)

(***************************************************************************)
(*                   SEOContentService: the image prompt                   *)
(***************************************************************************)

\* base_prompts[content_type]: a KeyError for any other content type
generate_image_prompt(content_type, location, custom_data, rnd) ==
    IF content_type \notin ContentTypes THEN Err("KeyError")
    ELSE
    LET base_prompts ==
            CASE content_type = "property_showcase" -> base_prompts_property_showcase
              [] content_type = "market_update" -> base_prompts_market_update
              [] content_type = "educational" -> base_prompts_educational
              [] content_type = "community" -> base_prompts_community
        prompt_template == Pick(base_prompts, rnd.prompt)
        prompt_data ==
            <<<<"location", location>>,
              <<"property_type", Get(custom_data, "property_type", "family home")>>,
              <<"room", Get(custom_data, "room", "living room")>>,
              <<"topic", Get(custom_data, "topic", "home buying process")>>>>
        base_prompt == Format(prompt_template, prompt_data)
        enhancers == Sample(quality_enhancers, 3, rnd.enhancers)
    IN  IF base_prompt.kind = "raise" THEN base_prompt
        ELSE Ok(base_prompt.val \o ", " \o enhancers[1] \o ", " \o enhancers[2]
                \o ", " \o enhancers[3])

(***************************************************************************)
(* Calls of the body and of the image prompt.  The draws from the phrase   *)
(* pools are bounded to the first MaxPool entries of each pool.            *)
(***************************************************************************)

MaxPool == 2

CustomDatas ==
    {<<>>,
     <<(<<"topic", "closing costs">>)>>,
     <<(<<"property_type", "bungalow">>), (<<"price", "$499,000">>)>>,
     <<(<<"feature", "waterfront trails">>)>>,
     <<(<<"location", "Tecumseh">>)>>}

BodyLocations == {"Windsor", "Belle River"}

BodyInit ==
    /\ seoIn \in [content_type : ContentTypes \cup {"general"},
                  location : BodyLocations, custom_data : CustomDatas]
    /\ seoCall = NoCall
    /\ seoRet = NoRet
    /\ random = NoDraws
    /\ ImgIdle
    /\ CalIdle
    /\ WebIdle

GenerateContentBody ==
    /\ seoCall = NoCall
    /\ \E hook \in 0..(Len(Hooks(seoIn.content_type)) - 1),
          structure \in 0..(Len(Structures(seoIn.content_type)) - 1),
          cta \in 0..(Len(CtaTemplates(seoIn.content_type)) - 1),
          pool \in [1..4 -> 0..(MaxPool - 1)] :
        LET rnd == [hook |-> hook, structure |-> structure, cta |-> cta, pool |-> pool]
        IN  /\ seoCall' = [op |-> "generate_content_body", hook |-> hook]
            /\ seoRet' = generate_content_body(seoIn.content_type, seoIn.location,
                                               seoIn.custom_data, rnd)
    /\ UNCHANGED <<seoIn, random, imgVars, calVars, webVars>>

\* every sequence of k different positions of 1..n
Selections(n, k) ==
    {positions \in [1..k -> 1..n] :
        \A i, j \in 1..k : i < j => positions[i] # positions[j]}

GenerateImagePrompt ==
    /\ seoCall = NoCall
    /\ \E prompt \in 0..2, enhancers \in Selections(Len(quality_enhancers), 3) :
        LET rnd == [prompt |-> prompt, enhancers |-> enhancers]
        IN  /\ seoCall' = [op |-> "generate_image_prompt", prompt |-> prompt]
            /\ seoRet' = generate_image_prompt(seoIn.content_type, seoIn.location,
                                               seoIn.custom_data, rnd)
    /\ UNCHANGED <<seoIn, random, imgVars, calVars, webVars>>

BodyNext == GenerateContentBody \/ GenerateImagePrompt

SpecBody == BodyInit /\ [][BodyNext]_vars

\* C6: building the post body never raises: for each of the four categories,
\* every location and every set of overrides (none included) the body is
\* returned, a placeholder without a value giving the generic sentence.
C6_BodyNeverRaises ==
    (seoCall.op = "generate_content_body" /\ seoIn.content_type \in ContentTypes)
        => seoRet.kind = "return"

(***************************************************************************)
(*        SEOContentService: readability, metadata and a whole post        *)
(***************************************************************************)

\* str.count(sub): the occurrences of sub in s that do not overlap, counted
\* from the left, starting at position from
RECURSIVE CountFrom(_, _, _)
CountFrom(sub, s, from) ==
    LET hits == {i \in from..(Len(s) - Len(sub) + 1) : SubSeq(s, i, i + Len(sub) - 1) = sub}
    IN  IF hits = {} THEN 0
        ELSE LET first == CHOOSE i \in hits : \A j \in hits : i <= j
             IN  1 + CountFrom(sub, s, first + Len(sub))

Count(sub, s) == CountFrom(sub, s, 1)

IsTerminator(c) == c \in {".", "!", "?"}
\* str.split() with no argument splits on every character str.isspace()
\* holds for.  Of these the ASCII ones are listed: space, \t, \n, \r, form
\* feed, vertical tab and the separators 0x1c..0x1f (the last five stand in
\* the strings as the characters themselves).  The white space outside ASCII
\* (0x85, 0xa0, 0x1680, 0x2000..0x200a, 0x2028, 0x2029, 0x202f, 0x205f,
\* 0x3000) cannot be told from other characters outside ASCII, which are all
\* written "*".
IsSpace(c) ==
    c \in {" ", "\n", "\t", "\r", "\f", "", "", "", "", ""}

\* len(re.split(r'[.!?]+', content)): one piece more than there are runs of
\* terminators
SentenceCount(content) ==
    1 + Cardinality({i \in 1..Len(content) :
                        /\ IsTerminator(SubSeq(content, i, i))
                        /\ (i = 1 \/ ~IsTerminator(SubSeq(content, i - 1, i - 1)))})

\* len(content.split()): the runs of characters that are not white space
WordCount(content) ==
    Cardinality({i \in 1..Len(content) :
                    /\ ~IsSpace(SubSeq(content, i, i))
                    /\ (i = 1 \/ IsSpace(SubSeq(content, i - 1, i - 1)))})

\* the bands of words / sentences, compared without dividing
calculate_readability_score(content) ==
    LET sentences == SentenceCount(content)
        words == WordCount(content)
    IN  IF sentences = 0 THEN 0
        ELSE IF words <= 15 * sentences THEN 90
        ELSE IF words <= 20 * sentences THEN 70
        ELSE IF words <= 25 * sentences THEN 50
        ELSE 30

generate_seo_metadata(content, location, content_type) ==
    LET content_lower == lower(content)
        counts == [k \in DOMAIN real_estate_keywords |->
                      Count(lower(real_estate_keywords[k]), content_lower)]
        found == SelectSeq([k \in DOMAIN real_estate_keywords |-> k],
                           LAMBDA k : counts[k] > 0)
        keyword_density == [i \in DOMAIN found |->
                               <<real_estate_keywords[found[i]], counts[found[i]]>>]
    IN  [keyword_density |-> keyword_density,
         meta_description |-> "Real estate content for " \o location \o ". "
                              \o SubSeq(content, 1, Min(100, Len(content))) \o "...",
         primary_keywords |-> [i \in 1..Min(5, Len(found)) |->
                                  real_estate_keywords[found[i]]],
         location_mentions |-> Count(lower(location), content_lower),
         seo_score |-> calculate_seo_score(content, location, content_type),
         content_length |-> Len(content),
         readability_score |-> calculate_readability_score(content)]

\* location "" stands for a call without a location; rnd holds every random
\* draw of the call and now is the clock reading of the posting time.
\* rnd.range is the random.choice among the time ranges, rnd.hour the hour
\* of the range drawn, counted from its start, and rnd.minute the
\* random.choice among the four minutes.
generate_seo_optimized_content(content_type, platform, location, custom_data, now, rnd) ==
    LET loc == IF location = "" THEN Pick(location_keywords_primary, rnd.location)
               ELSE location
        content == generate_content_body(content_type, loc, custom_data, rnd)
        hashtags == generate_hashtags(content_type, platform, loc, rnd.target_count,
                                      rnd.samples, rnd.set_order)
        image_prompt == generate_image_prompt(content_type, loc, custom_data, rnd)
        range == Pick(TimeRanges(platform, now), rnd.range)
        optimal_time == get_optimal_posting_time(
                            platform, now, range,
                            range[1] + (rnd.hour % (range[2] - range[1])),
                            Pick(<<0, 15, 30, 45>>, rnd.minute))
    IN  IF content.kind = "raise" THEN content
        ELSE IF image_prompt.kind = "raise" THEN image_prompt
        ELSE Ok([content |-> content.val,
                 hashtags |-> hashtags,
                 image_prompt |-> image_prompt.val,
                 platform |-> platform,
                 content_type |-> content_type,
                 location |-> loc,
                 optimal_posting_time |-> optimal_time,
                 seo_metadata |-> generate_seo_metadata(content.val, loc, content_type),
                 character_count |-> Len(content.val),
                 estimated_engagement_score |->
                     calculate_engagement_score(content.val, hashtags, platform)])

(***************************************************************************)
(* The draws of a whole post.  The operator above takes any draws; a call  *)
(* takes them from `random`.  The draws the runs start with: every         *)
(* hook, and of the structure, the location, the draws of the body, of the *)
(* hashtags, of the image prompt and of the posting time, each enumerated  *)
(* in the order of the code, those whose numbers add up to MaxSeed at most.*)
(***************************************************************************)

MaxSeed == 1

RECURSIVE Digits(_, _)
\* the number index written with the radices given, lowest digit first
Digits(index, radices) ==
    IF radices = <<>> THEN <<>>
    ELSE <<index % Head(radices)>> \o Digits(index \div Head(radices), Tail(radices))

\* the sizes of the phrase pools the body of a content type draws from
PoolSizes(content_type) ==
    CASE content_type = "property_showcase" ->
            <<Len(property_types), Len(features), Len(features), Len(features)>>
      [] content_type = "market_update" -> <<Len(trends), 1, 1, 1>>
      [] content_type = "educational" -> <<Len(topics), 1, 1, 1>>
      [] OTHER -> <<Len(community_features), 1, 1, 1>>

\* the draws of the body but hook and structure: the phrases, the call to action
BodyDraw(content_type, index) ==
    LET d == Digits(index, PoolSizes(content_type)
                           \o <<Len(CtaTemplates(content_type))>>)
    IN  [pool |-> SubSeq(d, 1, 4), cta |-> d[5]]

\* the draws of the image prompt: the template, the three enhancers
ImageDraw(index) ==
    LET d == Digits(index, <<Len(base_prompts_community),
                             Arrangements(Len(quality_enhancers), 3)>>)
    IN  [prompt |-> d[1], enhancers |-> Selection(Len(quality_enhancers), 3, d[2])]

\* the draws of the posting time: at most two ranges of at most two hours
TimeDraw(index) ==
    LET d == Digits(index, <<2, 2, 4>>)
    IN  [range |-> d[1], hour |-> d[2], minute |-> d[3]]

SeoDraw(content_type, platform, location, hook, structure, place, body, tags, image, time) ==
    LET loc == IF location = "" THEN Pick(location_keywords_primary, place)
               ELSE location
        b == BodyDraw(content_type, body)
        h == HashtagDraw(content_type, platform, loc, tags)
        g == ImageDraw(image)
        t == TimeDraw(time)
    IN  [hook |-> hook, structure |-> structure, location |-> place,
         pool |-> b.pool, cta |-> b.cta,
         target_count |-> h.target_count, samples |-> h.samples,
         set_order |-> h.set_order,
         prompt |-> g.prompt, enhancers |-> g.enhancers,
         range |-> t.range, hour |-> t.hour, minute |-> t.minute]

\* the numbers of the draws of a post but the hook: structure, location,
\* body, hashtags, image prompt, posting time
DrawNumbers(content_type, location, max) ==
    {d \in [1..6 -> 0..max] :
        /\ d[1] < Len(Structures(content_type))
        /\ location # "" => d[2] = 0
        /\ d[1] + d[2] + d[3] + d[4] + d[5] + d[6] <= max}

SeoDraws(content_type, platform, location, max) ==
    {SeoDraw(content_type, platform, location, hook, d[1], d[2], d[3], d[4], d[5], d[6]) :
        hook \in 0..(Len(Hooks(content_type)) - 1),
        d \in DrawNumbers(content_type, location, max)}

GenerateCustomDatas ==
    {<<>>,
     <<(<<"topic", "closing costs">>)>>,
     <<(<<"property_type", "bungalow">>), (<<"price", "$499,000">>)>>}

\* a Wednesday morning and a Saturday evening
GenerateNows ==
    {[day |-> 2, hour |-> 9, minute |-> 30, second |-> 0, microsecond |-> 0],
     [day |-> 5, hour |-> 21, minute |-> 15, second |-> 30, microsecond |-> 1]}

GenerateInit ==
    /\ seoIn \in [content_type : ContentTypes \cup {"general"}, platform : Platforms,
                  location : {"", "Windsor"}, custom_data : GenerateCustomDatas,
                  now : GenerateNows]
    /\ seoCall = NoCall
    /\ seoRet = NoRet
    /\ random \in SeoDraws(seoIn.content_type, seoIn.platform, seoIn.location, MaxSeed)
    /\ ImgIdle
    /\ CalIdle
    /\ WebIdle

GenerateSeoOptimizedContent ==
    /\ seoCall = NoCall
    /\ seoCall' = [op |-> "generate_seo_optimized_content", hook |-> random.hook,
                   structure |-> random.structure]
    /\ seoRet' = generate_seo_optimized_content(
                    seoIn.content_type, seoIn.platform, seoIn.location,
                    seoIn.custom_data, seoIn.now, random)
    /\ UNCHANGED <<seoIn, random, imgVars, calVars, webVars>>

GenerateNext == GenerateSeoOptimizedContent

SpecGenerate == GenerateInit /\ [][GenerateNext]_vars

\* C7: a call with a category that is none of the four completes and returns
\* a post (built from the community tables); no step fails on the category.
C7_UnknownCategoryCompletes ==
    (seoCall.op = "generate_seo_optimized_content"
     /\ seoIn.content_type \notin ContentTypes)
        => seoRet.kind = "return"

(***************************************************************************)
(*                 Calls of the readability score alone                    *)
(* The content is n sentences of w words each, every sentence followed by  *)
(* a terminator (the last one only when `terminated`), or the spec's own   *)
(* example.                                                                *)
(***************************************************************************)

MaxSentences == 3
MaxWords == 27

RECURSIVE Repeat(_, _)
Repeat(s, k) ==
    IF k <= 0 THEN ""
    ELSE IF k = 1 THEN s
    ELSE Repeat(s, k \div 2) \o Repeat(s, k - (k \div 2))

Terminators == {".", "!", "?", "?!"}

\* white space between the words: a space, a line break, a form feed
Separators == {" ", "\n", "\f"}

SentenceText(w, sep) == "word" \o Repeat(sep \o "word", w - 1)

ContentOf(n, w, term, terminated, sep) ==
    IF n = 0 THEN ""
    ELSE Repeat(SentenceText(w, sep) \o term \o " ", n - 1) \o SentenceText(w, sep)
         \o (IF terminated THEN term ELSE "")

ReadabilityInputs ==
    {[n |-> n, w |-> w, terminated |-> terminated,
      content |-> ContentOf(n, w, term, terminated, sep)] :
        n \in 1..MaxSentences, w \in 1..MaxWords, term \in Terminators,
        terminated \in BOOLEAN, sep \in Separators}
    \cup {[n |-> 0, w |-> 0, terminated |-> FALSE, content |-> ""],
          [n |-> 3, w |-> 1, terminated |-> TRUE, content |-> "A. B. C."]}

ReadabilityInit ==
    /\ seoIn \in ReadabilityInputs
    /\ seoCall = NoCall
    /\ seoRet = NoRet
    /\ random = NoDraws
    /\ ImgIdle
    /\ CalIdle
    /\ WebIdle

CalculateReadabilityScore ==
    /\ seoCall = NoCall
    /\ seoCall' = [op |-> "calculate_readability_score"]
    /\ seoRet' = Ok(calculate_readability_score(seoIn.content))
    /\ UNCHANGED <<seoIn, random, imgVars, calVars, webVars>>

ReadabilityNext == CalculateReadabilityScore

SpecReadability == ReadabilityInit /\ [][ReadabilityNext]_vars

\* the band of words / sentences the documentation gives
ReadabilityBand(words, sentences) ==
    IF words <= 15 * sentences THEN 90
    ELSE IF words <= 20 * sentences THEN 70
    ELSE IF words <= 25 * sentences THEN 50
    ELSE 30

\* C13: content made of n sentences, each ended by a terminator, counts as
\* n sentences: its score is the band of its words divided by n.
C13_SentencesCounted ==
    (seoCall.op = "calculate_readability_score" /\ seoIn.n >= 1 /\ seoIn.terminated)
        => seoRet.val = ReadabilityBand(seoIn.n * seoIn.w, seoIn.n)

\* C14: content with no sentence, the empty content in particular, has
\* readability score 0.
C14_NoSentenceScoresZero ==
    (seoCall.op = "calculate_readability_score" /\ seoIn.n = 0)
        => seoRet.val = 0

(***************************************************************************)
(*             SEOContentService: optimize_existing_content                *)
(***************************************************************************)

optimize_cta_indicators == {"dm", "message", "contact", "call"}

\* any(loc.lower() in content_lower for loc in location_keywords['primary'])
LocationMentioned(content_lower) ==
    \E i \in DOMAIN location_keywords_primary :
        Contains(lower(location_keywords_primary[i]), content_lower)

ReKeywordsFound(content_lower) ==
    \E k \in DOMAIN real_estate_keywords :
        Contains(lower(real_estate_keywords[k]), content_lower)

CtaPresent(content_lower) ==
    \E cta \in optimize_cta_indicators : Contains(cta, content_lower)

SuggestExpand == "Expand content for better engagement (aim for 100-300 characters)"
SuggestShorten == "Consider shortening content for better readability"
SuggestLocation == "Add location-specific keywords (Windsor, Essex County, etc.)"
SuggestKeywords == "Include real estate-specific keywords"
SuggestCta == "Add a clear call-to-action"

\* "Check content length"
LengthSuggestionInclusive(content) ==
    IF Len(content) <= 50 THEN <<SuggestExpand>>
    ELSE IF Len(content) > 500 THEN <<SuggestShorten>>
    ELSE <<>>

LengthSuggestion(content) ==
    IF Len(content) < 50 THEN <<SuggestExpand>>
    ELSE IF Len(content) > 500 THEN <<SuggestShorten>>
    ELSE <<>>

\* target_count, samples and set_order are the draws of the hashtag selection
optimize_existing_content(content, platform, target_count, samples, set_order) ==
    LET current_score == calculate_seo_score(content, "Windsor", "general")
        content_lower == lower(content)
        suggestions ==
            (IF ~LocationMentioned(content_lower) THEN <<SuggestLocation>> ELSE <<>>)
            \o (IF ~ReKeywordsFound(content_lower) THEN <<SuggestKeywords>> ELSE <<>>)
            \o (IF ~CtaPresent(content_lower) THEN <<SuggestCta>> ELSE <<>>)
            \o LengthSuggestion(content)
    IN  [original_content |-> content,
         current_seo_score |-> current_score,
         suggestions |-> suggestions,
         optimized_hashtags |-> generate_hashtags("general", platform, "Windsor",
                                                  target_count, samples, set_order),
         estimated_improvement |-> Min(100 - current_score, 30)]

\* The contents optimized: a text, filled up with a filler to a length
\* around the two thresholds.
OptimizeTexts ==
    {"", "Great opportunity!",
     "Call me about this house in Windsor! ",
     "New listing in Essex County, DM for details. ",
     "Thinking of selling your home? Book a visit today. "}

OptimizeLengths == {0, 49, 50, 51, 300, 499, 500, 501}

FillTo(text, n) == text \o Repeat("x", n - Len(text))

\* the runs start with the selections 0..MaxOptimizeSelection of each sample
MaxOptimizeSelection == 0

OptimizeInit ==
    /\ seoIn \in [content : {FillTo(text, n) : text \in OptimizeTexts,
                                              n \in OptimizeLengths},
                  platform : Platforms]
    /\ seoCall = NoCall
    /\ seoRet = NoRet
    /\ random \in HashtagDraws("general", seoIn.platform, "Windsor",
                               MaxOptimizeSelection, MaxSeed)
    /\ ImgIdle
    /\ CalIdle
    /\ WebIdle

OptimizeExistingContent ==
    /\ seoCall = NoCall
    /\ seoCall' = [op |-> "optimize_existing_content",
                   target_count |-> random.target_count]
    /\ seoRet' = Ok(optimize_existing_content(
                        seoIn.content, seoIn.platform, random.target_count,
                        random.samples, random.set_order))
    /\ UNCHANGED <<seoIn, random, imgVars, calVars, webVars>>

OptimizeNext == OptimizeExistingContent

SpecOptimize == OptimizeInit /\ [][OptimizeNext]_vars

Suggested(text) ==
    \E i \in DOMAIN seoRet.val.suggestions : seoRet.val.suggestions[i] = text

\* C15: the suggestion to expand the content is made exactly when the
\* content is shorter than 50 characters, the suggestion to shorten it
\* exactly when it is longer than 500, and never both.
C15_LengthSuggestions ==
    seoCall.op = "optimize_existing_content" =>
        /\ Suggested(SuggestExpand) <=> Len(seoIn.content) < 50
        /\ Suggested(SuggestShorten) <=> Len(seoIn.content) > 500
        /\ ~(Suggested(SuggestExpand) /\ Suggested(SuggestShorten))

\* C15 witness: 'Great opportunity!' on Instagram is told to expand and not
\* to shorten.
C15_Witness ==
    /\ seoCall.op = "optimize_existing_content"
    /\ seoIn.content = "Great opportunity!"
    /\ seoIn.platform = "instagram"
    /\ Suggested(SuggestExpand)
    /\ ~Suggested(SuggestShorten)

(***************************************************************************)
(*                SEOContentService: the content calendar                  *)
(* generate_content_calendar is a loop over day = 0 .. days - 1; each pass *)
(* of the loop is one step, so that the clock can move between the passes. *)
(***************************************************************************)

MaxCalendarDays == 2

\* the midnights that may pass while one calendar is built
MaxMidnights == 1

\* The draws of a pass of the loop the runs go through: skip or not, every
\* content type and hook, and of the location and of the other draws of the
\* post those of number 0..MaxCalendarSeed.
MaxCalendarSeed == 0

\* a Friday, ten minutes before midnight
CalendarNows ==
    {[day |-> 4, hour |-> 23, minute |-> 50, second |-> 0, microsecond |-> 0]}

\* datetime.now(): the clock has not moved since the last reading, or the
\* next midnight has just passed
ClockReadings(last, start) ==
    {last} \cup
    (IF last.day - start.day < MaxMidnights
     THEN {[day |-> last.day + 1, hour |-> 0, minute |-> 0, second |-> 0,
            microsecond |-> 0]}
     ELSE {})

\* strftime('%Y-%m-%d') and strftime('%A') of post_date: the day number and
\* the weekday (0 is Monday)
Scheduled(content_data, post_date) ==
    content_data @@ [scheduled_date |-> post_date.day, day_of_week |-> weekday(post_date)]

\* the draws of one pass: random.random() < 0.3, random.choices among the
\* content types, random.choice among the locations, the draws of the post
CalendarDraws(platform, max) ==
    {[skip |-> TRUE]}
    \cup UNION {UNION {{[skip |-> FALSE, content_type |-> content_type,
                         location |-> place, post |-> post] :
                           post \in SeoDraws(content_type, platform,
                                             Pick(location_keywords_primary, place),
                                             max)} :
                          place \in 0..max} :
                   content_type \in ContentTypes}

CalendarInit ==
    /\ seoIn \in [days : 0..MaxCalendarDays, platform : Platforms, now : CalendarNows]
    /\ seoCall = NoCall
    /\ seoRet = NoRet
    /\ random \in CalendarDraws(seoIn.platform, MaxCalendarSeed)
    /\ ImgIdle
    /\ CalIdle
    /\ WebIdle

\* the call, up to the loop
GenerateContentCalendar ==
    /\ seoCall = NoCall
    /\ seoCall' = [op |-> "generate_content_calendar"]
    /\ calendar' = <<>>
    /\ calDay' = 0
    /\ clock' = seoIn.now
    /\ UNCHANGED <<seoIn, seoRet, random, imgVars, webVars>>

\* what the random module gives to the pass after this one: any draws while
\* a pass is left
NextDraws(day, raised) ==
    IF raised \/ day >= seoIn.days THEN {NoDraws}
    ELSE CalendarDraws(seoIn.platform, MaxCalendarSeed)

\* one pass of the loop: the day is skipped, or a post is generated for the
\* drawn category and location and appended; an exception of the generation
\* leaves the loop and the call.  The pass reads the clock for post_date
\* and, when the day is not skipped, once more in _get_optimal_posting_time
\* for the posting time of the post; the clock may move between the two.
CalendarDay ==
    /\ seoCall.op = "generate_content_calendar"
    /\ seoRet = NoRet
    /\ calDay < seoIn.days
    /\ \E reading \in ClockReadings(clock, seoIn.now) :
        LET post_date == PlusDays(reading, calDay)
        IN  IF random.skip
            THEN /\ clock' = reading
                 /\ calDay' = calDay + 1
                 /\ random' \in NextDraws(calDay + 1, FALSE)
                 /\ UNCHANGED <<calendar, seoRet>>
            ELSE \E now \in ClockReadings(reading, seoIn.now) :
                 LET location == Pick(location_keywords_primary, random.location)
                     content_data ==
                         generate_seo_optimized_content(
                             random.content_type, seoIn.platform, location, <<>>, now,
                             random.post)
                 IN  /\ clock' = now
                     /\ IF content_data.kind = "raise"
                        THEN /\ seoRet' = content_data
                             /\ random' \in NextDraws(calDay, TRUE)
                             /\ UNCHANGED <<calendar, calDay>>
                        ELSE /\ calendar' = Append(calendar,
                                                   Scheduled(content_data.val, post_date))
                             /\ calDay' = calDay + 1
                             /\ random' \in NextDraws(calDay + 1, FALSE)
                             /\ UNCHANGED seoRet
    /\ UNCHANGED <<seoIn, seoCall, imgVars, webVars>>

\* the loop is over: return calendar
CalendarReturn ==
    /\ seoCall.op = "generate_content_calendar"
    /\ seoRet = NoRet
    /\ calDay >= seoIn.days
    /\ seoRet' = Ok(calendar)
    /\ UNCHANGED <<seoIn, seoCall, random, imgVars, calVars, webVars>>

CalendarNext == GenerateContentCalendar \/ CalendarDay \/ CalendarReturn

SpecCalendar == CalendarInit /\ [][CalendarNext]_vars

\* C10: a finished calendar call has returned a list of at most `days`
\* entries whose scheduled dates are strictly increasing and lie 0 to
\* days - 1 days after the day of the call, whatever was drawn.
C10_CalendarInRange ==
    (seoCall.op = "generate_content_calendar" /\ seoRet # NoRet) =>
        /\ seoRet.kind = "return"
        /\ Len(seoRet.val) <= seoIn.days
        /\ \A i, j \in DOMAIN seoRet.val :
              i < j => seoRet.val[i].scheduled_date < seoRet.val[j].scheduled_date
        /\ \A i \in DOMAIN seoRet.val :
              seoRet.val[i].scheduled_date - seoIn.now.day \in 0..(seoIn.days - 1)

(***************************************************************************)
(*        The post routes (src/src/routes/social_media.py) and the         *)
(*        tables they use (src/src/models/social_media.py)                 *)
(* A row of a table is a record and its id is its position in the table.   *)
(* Of a post the columns the handlers read or write are kept; the text of  *)
(* the post is passed on to the platform unchanged and is left out.        *)
(*                                                                         *)
(* The server handles requests on several threads at once.  Each thread    *)
(* has its own database session: the rows it has loaded stay as it read    *)
(* them until it commits, and a commit writes the columns the thread has   *)
(* changed.  A step of a thread is the code up to and including one SQL    *)
(* statement, one commit or one request to a platform; between two steps   *)
(* of a thread the other threads may take any number of steps.  The first  *)
(* step of a handler begins with the arrival of the request.               *)
(***************************************************************************)

\* requests the clients send in one run
MaxClientRequests == 4

\* the threads of the server that handle requests: two, so that any two
\* handlers run side by side
Workers == {1, 2}

WorkerIdle == [pc |-> "idle"]

\* values a client gives as platform of an account
PlatformValues == {"facebook", "instagram", "linkedin"}

\* The ids the Graph API answers with: it gives every object it creates an
\* id of its own, 17841 to the first, 17842 to the second and so on.
DecimalDigits == <<"0", "1", "2", "3", "4", "5", "6", "7", "8", "9">>

GraphId(k) ==
    "178" \o DecimalDigits[((40 + k) \div 10) + 1] \o DecimalDigits[((40 + k) % 10) + 1]

\* a handler makes at most two requests that create an object
GraphIds == {GraphId(k) : k \in 1..(2 * MaxClientRequests)}

\* What a request to the Graph API comes to after the requests in `log`: a
\* JSON answer with the id of the object created, a JSON answer without an
\* id, or an exception (no connection, no JSON).
GraphOutcomes(log) ==
    {GraphId(1 + Cardinality({i \in DOMAIN log : log[i].outcome \in GraphIds})),
     "error", "exception"}

\* SocialMediaAccount(...)
SocialMediaAccount(user_id, platform, account_id) ==
    [user_id |-> user_id, platform |-> platform, account_id |-> account_id,
     is_active |-> TRUE]

\* SocialMediaPost(...): status defaults to 'draft'
SocialMediaPost(account_id, scheduled_at) ==
    [account_id |-> account_id, status |-> "draft", scheduled_at |-> scheduled_at,
     posted_at |-> "None", platform_post_id |-> "None", error_message |-> "None",
     image_url |-> "None"]

Response(code, success, error) == [code |-> code, success |-> success, error |-> error]

\* db.session.commit() after assignments to a loaded row: the UPDATE sets
\* the columns whose value differs from the one the session loaded, and
\* leaves the other columns as they are stored now.
Commit(row, loaded, local) ==
    [c \in DOMAIN row |-> IF local[c] # loaded[c] THEN local[c] ELSE row[c]]

\* requests.post to the Graph API: what is appended to the requests made.
\* status and picture are those of the post as the sending thread holds it.
GraphRequest(post_id, endpoint, post, creation_id, outcome) ==
    [post |-> post_id, endpoint |-> endpoint, status |-> post.status,
     picture |-> post.image_url # "None", creation_id |-> creation_id,
     outcome |-> outcome]

\* the state of a thread that has made its last request to the platform:
\* the commit of publish_post_now is its next step
AtCommit(worker, local, success) ==
    [pc |-> "commit", data |-> worker.data, loaded |-> worker.loaded,
     local |-> local, success |-> success]

\* publish_to_facebook after requests.post: the thread goes on to the commit
publish_to_facebook(worker, outcome) ==
    LET post == worker.loaded
    IN  IF outcome = "exception"
        THEN AtCommit(worker, [post EXCEPT !.error_message = "ConnectionError"], FALSE)
        ELSE IF outcome \in GraphIds
        THEN AtCommit(worker, [post EXCEPT !.platform_post_id = outcome], TRUE)
        ELSE AtCommit(worker, [post EXCEPT !.error_message = "Graph API error message"],
                      FALSE)

\* publish_to_instagram when 'id' not in container_result
ContainerFailed(worker) ==
    AtCommit(worker, [worker.loaded EXCEPT !.error_message = "Graph API error message"],
             FALSE)

\* publish_to_instagram after the request that creates the container: the
\* thread goes on to the publish request or, on failure, to the commit
create_container(worker, outcome) ==
    IF outcome = "exception"
    THEN AtCommit(worker, [worker.loaded EXCEPT !.error_message = "ConnectionError"],
                  FALSE)
    ELSE IF outcome \notin GraphIds
    THEN ContainerFailed(worker)
    ELSE [pc |-> "publish", data |-> worker.data, loaded |-> worker.loaded,
          container_id |-> outcome]

\* publish_to_instagram after the publish request
publish_container(worker, outcome) ==
    LET post == worker.loaded
    IN  IF outcome = "exception"
        THEN AtCommit(worker, [post EXCEPT !.error_message = "ConnectionError"], FALSE)
        ELSE IF outcome \in GraphIds
        THEN AtCommit(worker, [post EXCEPT !.platform_post_id = outcome], TRUE)
        ELSE AtCommit(worker, [post EXCEPT !.error_message = "Graph API error message"],
                      FALSE)

\* "if success: ... else: ..." of publish_post_now: the post as the thread
\* holds it at the commit
Published(local, success) ==
    IF success
    THEN [local EXCEPT !.status = "posted", !.posted_at = "utcnow"]
    ELSE [local EXCEPT !.status = "failed",
                       !.error_message = "Failed to publish to platform"]

\* "not account.is_active" of publish_post_now
InactiveNever(account) == FALSE

Inactive(account) == ~account.is_active

\* What the caller of publish_post_now answers: publish_post returns what
\* publish_post_now returns, approve_post ignores it and answers success.
PublishAnswer(data, returned) ==
    IF data.op = "approve_post" THEN Response(200, TRUE, "") ELSE returned

\* first() of the query for an account of this user, platform and account id:
\* the id of the row, 0 when there is none
ExistingAccount(accs, user_id, platform, account_id) ==
    LET found == {i \in DOMAIN accs : /\ accs[i].user_id = user_id
                                      /\ accs[i].platform = platform
                                      /\ accs[i].account_id = account_id}
    IN  IF found = {} THEN 0 ELSE CHOOSE i \in found : \A j \in found : i <= j

\* "if existing_account: ... else: ... db.session.add(account)" and the
\* commit: the rows after them.  existing is the id the query gave and
\* account the row it loaded, or the new SocialMediaAccount when it gave none.
StoreAccount(existing, account, accs) ==
    IF existing # 0
    THEN [accs EXCEPT ![existing] =
             Commit(accs[existing], account, [account EXCEPT !.is_active = TRUE])]
    ELSE Append(accs, account)

\* generate_image_for_post: the post row after the call; net is what the
\* requests of the image service come to
generate_image_for_post(post, hfKey, oaKey, net) ==
    LET result == generate_image("stable-diffusion-v1-5", "auto", hfKey, oaKey, net)
    IN  IF result.kind = "return" /\ result.val.success
        THEN [post EXCEPT !.image_url = result.val.image_url]
        ELSE post

\* "if post.status != 'draft'" of approve_post
NotDraftNever(post) == FALSE

NotDraft(post) == post.status # "draft"

\* The names the module social_media imports: `time` is not among them.
TimeImported == FALSE

\* AIImageGeneration(prompt=..., status='pending')
AIImageGeneration ==
    [status |-> "pending", image_url |-> "None", error_message |-> "None"]

\* The route generate_image: the result is [images, response].  The record
\* is committed as 'pending' before the try block goes on; an exception
\* raised after that commit leaves the record as committed.
generate_image_route(data, hfKey, oaKey, net, imgs) ==
    IF ~data.prompt
    THEN [images |-> imgs, response |-> Response(400, FALSE, "Prompt is required")]
    ELSE
    LET committed == Append(imgs, AIImageGeneration)
        id == Len(committed)
    IN  IF ~TimeImported
        THEN \* start_time = time.time() raises NameError
             [images |-> committed,
              response |-> Response(500, FALSE, "Failed to generate image")]
        ELSE
        LET result == generate_image("stable-diffusion-v1-5", "auto", hfKey, oaKey, net)
        IN  IF result.kind = "raise"
            THEN [images |-> committed,
                  response |-> Response(500, FALSE, "Failed to generate image")]
            ELSE IF result.val.success
            THEN [images |-> [committed EXCEPT ![id].status = "completed",
                                               ![id].image_url = result.val.image_url],
                  response |-> Response(200, TRUE, "")]
            ELSE [images |-> [committed EXCEPT ![id].status = "failed",
                                               ![id].error_message = result.val.error],
                  response |-> Response(200, FALSE, "")]

\* What the requests of the image service come to while the route runs.
GenerateImageNets(data) ==
    IF data.prompt /\ TimeImported
    THEN {[i \in 1..MaxRequests |-> o] : o \in Outcomes}
    ELSE {[i \in 1..MaxRequests |-> "ok"]}

(***************************************************************************)
(* The requests clients send, MaxClientRequests in all; an id in a request *)
(* is the id of a row or the first id that has no row.                     *)
(***************************************************************************)

\* a request with a field missing is answered before any other field is read
ConnectRequests ==
    [op : {"connect_account"}, complete : {TRUE}, user_id : {"default_user"},
     platform : PlatformValues, account_id : {"page-1"}]
    \cup {[op |-> "connect_account", complete |-> FALSE, user_id |-> "default_user",
            platform |-> "facebook", account_id |-> "page-1"]}

DisconnectRequests == [op : {"disconnect_account"}, account_id : 1..MaxClientRequests]

CreateRequests ==
    [op : {"create_post"}, complete : {TRUE}, account_id : 1..MaxClientRequests,
     scheduled_at : {"None", "2026-01-05T09:00:00"}, image_prompt : BOOLEAN]
    \cup {[op |-> "create_post", complete |-> FALSE, account_id |-> 1,
            scheduled_at |-> "None", image_prompt |-> FALSE]}

ApproveRequests == [op : {"approve_post"}, post_id : 1..MaxClientRequests]

PublishRequests == [op : {"publish_post"}, post_id : 1..MaxClientRequests]

GenerateImageRequests == [op : {"generate_image"}, prompt : BOOLEAN]

WebInit ==
    /\ accounts = <<>>
    /\ posts = <<>>
    /\ sent = <<>>
    /\ request = NoRequest
    /\ response = NoResponse
    /\ served = 0
    /\ images = <<>>
    /\ workers = [w \in Workers |-> WorkerIdle]
    /\ ImgIdle
    /\ SeoIdle
    /\ CalIdle

\* a request arrives and the server gives it to its first free thread
Free(w) ==
    /\ served < MaxClientRequests
    /\ workers[w].pc = "idle"
    /\ \A v \in Workers : v < w => workers[v].pc # "idle"

\* connect_account up to the query for the existing account
ConnectAccount(w) ==
    /\ Free(w)
    /\ \E data \in ConnectRequests :
        /\ request' = data
        /\ IF ~data.complete
           THEN /\ response' = Response(400, FALSE, "Missing required fields")
                /\ UNCHANGED workers
           ELSE LET existing == ExistingAccount(accounts, data.user_id, data.platform,
                                                data.account_id)
                    account == IF existing # 0 THEN accounts[existing]
                               ELSE SocialMediaAccount(data.user_id, data.platform,
                                                       data.account_id)
                IN  /\ workers' = [workers EXCEPT ![w] =
                                      [pc |-> "store", data |-> data,
                                       existing |-> existing, account |-> account]]
                    /\ response' = NoResponse
    /\ served' = served + 1
    /\ UNCHANGED <<accounts, posts, sent, images, imgVars, seoVars, calVars>>

\* connect_account: the update or the add, the commit and the answer
ConnectStore(w) ==
    /\ workers[w].pc = "store"
    /\ accounts' = StoreAccount(workers[w].existing, workers[w].account, accounts)
    /\ response' = Response(200, TRUE, "")
    /\ workers' = [workers EXCEPT ![w] = WorkerIdle]
    /\ request' = NoRequest
    /\ UNCHANGED <<posts, sent, served, images, imgVars, seoVars, calVars>>

\* disconnect_account: get_or_404
DisconnectAccount(w) ==
    /\ Free(w)
    /\ \E data \in DisconnectRequests :
        /\ data.account_id <= Len(accounts) + 1
        /\ request' = data
        /\ IF data.account_id \notin DOMAIN accounts
           THEN /\ response' = Response(404, FALSE, "Not Found")
                /\ UNCHANGED workers
           ELSE /\ workers' = [workers EXCEPT ![w] =
                                  [pc |-> "disconnect", data |-> data,
                                   account |-> accounts[data.account_id]]]
                /\ response' = NoResponse
    /\ served' = served + 1
    /\ UNCHANGED <<accounts, posts, sent, images, imgVars, seoVars, calVars>>

\* disconnect_account: account.is_active = False, the commit and the answer
DisconnectCommit(w) ==
    /\ workers[w].pc = "disconnect"
    /\ LET account_id == workers[w].data.account_id
           account == workers[w].account
       IN  accounts' = [accounts EXCEPT ![account_id] =
                           Commit(accounts[account_id], account,
                                  [account EXCEPT !.is_active = FALSE])]
    /\ response' = Response(200, TRUE, "")
    /\ workers' = [workers EXCEPT ![w] = WorkerIdle]
    /\ request' = NoRequest
    /\ UNCHANGED <<posts, sent, served, images, imgVars, seoVars, calVars>>

\* create_post up to the query for the active account
CreatePost(w) ==
    /\ Free(w)
    /\ \E data \in CreateRequests :
        /\ data.account_id <= Len(accounts) + 1
        /\ request' = data
        /\ IF ~data.complete
           THEN /\ response' = Response(400, FALSE, "Missing required fields")
                /\ UNCHANGED workers
           ELSE IF data.account_id \notin DOMAIN accounts
                   \/ ~accounts[data.account_id].is_active
           THEN /\ response' = Response(404, FALSE, "Account not found or inactive")
                /\ UNCHANGED workers
           ELSE /\ workers' = [workers EXCEPT ![w] = [pc |-> "add", data |-> data]]
                /\ response' = NoResponse
    /\ served' = served + 1
    /\ UNCHANGED <<accounts, posts, sent, images, imgVars, seoVars, calVars>>

\* create_post: db.session.add(post) and the commit; the answer, when the
\* request has no image prompt
CreateAdd(w) ==
    /\ workers[w].pc = "add"
    /\ LET data == workers[w].data
       IN  /\ posts' = Append(posts, SocialMediaPost(data.account_id, data.scheduled_at))
           /\ IF data.image_prompt
              THEN /\ workers' = [workers EXCEPT ![w] =
                                     [pc |-> "image", data |-> data,
                                      post_id |-> Len(posts) + 1]]
                   /\ response' = NoResponse
              ELSE /\ workers' = [workers EXCEPT ![w] = WorkerIdle]
                   /\ response' = Response(200, TRUE, "")
    /\ request' = NoRequest
    /\ UNCHANGED <<accounts, sent, served, images, imgVars, seoVars, calVars>>

\* What the requests of the image service come to while create_post waits
\* for it: the network is in one condition during the call.
ImageNets == {[i \in 1..MaxRequests |-> o] : o \in Outcomes}

\* create_post: the image service has answered; generate_image_for_post
\* loads the post, assigns image_url and commits; the answer
CreateImage(w) ==
    /\ workers[w].pc = "image"
    /\ \E net \in ImageNets :
        LET post_id == workers[w].post_id
            loaded == posts[post_id]
            local == generate_image_for_post(loaded, huggingface_api_key,
                                             openai_api_key, net)
        IN  posts' = [posts EXCEPT ![post_id] = Commit(posts[post_id], loaded, local)]
    /\ response' = Response(200, TRUE, "")
    /\ workers' = [workers EXCEPT ![w] = WorkerIdle]
    /\ request' = NoRequest
    /\ UNCHANGED <<accounts, sent, served, images, imgVars, seoVars, calVars>>

\* approve_post up to the check of the status
ApprovePost(w) ==
    /\ Free(w)
    /\ \E data \in ApproveRequests :
        /\ data.post_id <= Len(posts) + 1
        /\ request' = data
        /\ IF data.post_id \notin DOMAIN posts
           THEN /\ response' = Response(404, FALSE, "Not Found")
                /\ UNCHANGED workers
           ELSE IF NotDraft(posts[data.post_id])
           THEN /\ response' = Response(400, FALSE, "Post is not in draft status")
                /\ UNCHANGED workers
           ELSE /\ workers' = [workers EXCEPT ![w] =
                                  [pc |-> "approve", data |-> data,
                                   loaded |-> posts[data.post_id]]]
                /\ response' = NoResponse
    /\ served' = served + 1
    /\ UNCHANGED <<accounts, posts, sent, images, imgVars, seoVars, calVars>>

\* approve_post: post.status = 'approved' and the commit
ApproveCommit(w) ==
    /\ workers[w].pc = "approve"
    /\ LET post_id == workers[w].data.post_id
           loaded == workers[w].loaded
       IN  posts' = [posts EXCEPT ![post_id] =
                        Commit(posts[post_id], loaded,
                               [loaded EXCEPT !.status = "approved"])]
    /\ workers' = [workers EXCEPT ![w] = [pc |-> "load_post", data |-> workers[w].data]]
    /\ request' = NoRequest
    /\ response' = NoResponse
    /\ UNCHANGED <<accounts, sent, served, images, imgVars, seoVars, calVars>>

\* approve_post: "if not post.scheduled_at" loads the row again, the commit
\* having expired it; a scheduled post is answered for, for another one
\* publish_post_now is called, whose get_or_404 finds the row just loaded
ApproveLoadPost(w) ==
    /\ workers[w].pc = "load_post"
    /\ LET post == posts[workers[w].data.post_id]
       IN  IF post.scheduled_at # "None"
           THEN /\ workers' = [workers EXCEPT ![w] = WorkerIdle]
                /\ response' = Response(200, TRUE, "")
           ELSE /\ workers' = [workers EXCEPT ![w] =
                                  [pc |-> "load_account", data |-> workers[w].data,
                                   loaded |-> post]]
                /\ response' = NoResponse
    /\ request' = NoRequest
    /\ UNCHANGED <<accounts, posts, sent, served, images, imgVars, seoVars, calVars>>

\* publish_post: get_or_404 of publish_post_now
PublishPost(w) ==
    /\ Free(w)
    /\ \E data \in PublishRequests :
        /\ data.post_id <= Len(posts) + 1
        /\ request' = data
        /\ IF data.post_id \notin DOMAIN posts
           THEN /\ response' = Response(404, FALSE, "Not Found")
                /\ UNCHANGED workers
           ELSE /\ workers' = [workers EXCEPT ![w] =
                                  [pc |-> "load_account", data |-> data,
                                   loaded |-> posts[data.post_id]]]
                /\ response' = NoResponse
    /\ served' = served + 1
    /\ UNCHANGED <<accounts, posts, sent, images, imgVars, seoVars, calVars>>

\* publish_post_now from "account = post.account", which loads the account,
\* to the call of publish_to_facebook or publish_to_instagram.  token_ok:
\* decrypt_token returns (the stored token was encrypted with the key this
\* process has).
PublishLoadAccount(w) ==
    /\ workers[w].pc = "load_account"
    /\ LET data == workers[w].data
           account == accounts[workers[w].loaded.account_id]
       IN  IF Inactive(account)
           THEN /\ response' = PublishAnswer(data, Response(404, FALSE,
                                                   "Account not found or inactive"))
                /\ workers' = [workers EXCEPT ![w] = WorkerIdle]
           ELSE \E token_ok \in BOOLEAN :
                IF ~token_ok
                THEN /\ response' = PublishAnswer(data, Response(500, FALSE,
                                                        "Failed to publish post"))
                     /\ workers' = [workers EXCEPT ![w] = WorkerIdle]
                ELSE IF account.platform \notin {"facebook", "instagram"}
                THEN /\ response' = PublishAnswer(data, Response(400, FALSE,
                                                        "Unsupported platform"))
                     /\ workers' = [workers EXCEPT ![w] = WorkerIdle]
                ELSE /\ workers' = [workers EXCEPT ![w] =
                                       [pc |-> "send", data |-> data,
                                        loaded |-> workers[w].loaded,
                                        platform |-> account.platform]]
                     /\ response' = NoResponse
    /\ request' = NoRequest
    /\ UNCHANGED <<accounts, posts, sent, served, images, imgVars, seoVars, calVars>>

\* the first requests.post of publish_to_facebook or publish_to_instagram
PlatformRequest(w) ==
    /\ workers[w].pc = "send"
    /\ \E outcome \in GraphOutcomes(sent) :
        /\ sent' = Append(sent,
                      GraphRequest(workers[w].data.post_id,
                                   IF workers[w].platform = "facebook" THEN "feed"
                                   ELSE "media",
                                   workers[w].loaded, "None", outcome))
        /\ workers' = [workers EXCEPT ![w] =
                          IF workers[w].platform = "facebook"
                          THEN publish_to_facebook(workers[w], outcome)
                          ELSE create_container(workers[w], outcome)]
    /\ request' = NoRequest
    /\ response' = NoResponse
    /\ UNCHANGED <<accounts, posts, served, images, imgVars, seoVars, calVars>>

\* publish_to_instagram: the container has been created; the publish request
InstagramPublish(w) ==
    /\ workers[w].pc = "publish"
    /\ \E outcome \in GraphOutcomes(sent) :
        /\ sent' = Append(sent, GraphRequest(workers[w].data.post_id, "media_publish",
                                             workers[w].loaded,
                                             workers[w].container_id, outcome))
        /\ workers' = [workers EXCEPT ![w] = publish_container(workers[w], outcome)]
    /\ request' = NoRequest
    /\ response' = NoResponse
    /\ UNCHANGED <<accounts, posts, served, images, imgVars, seoVars, calVars>>

\* publish_post_now: the platform has answered; the status is assigned and
\* committed; the answer
PublishCommit(w) ==
    /\ workers[w].pc = "commit"
    /\ LET post_id == workers[w].data.post_id
       IN  posts' = [posts EXCEPT ![post_id] =
                        Commit(posts[post_id], workers[w].loaded,
                               Published(workers[w].local, workers[w].success))]
    /\ response' = PublishAnswer(workers[w].data,
                                 Response(200, workers[w].success, ""))
    /\ workers' = [workers EXCEPT ![w] = WorkerIdle]
    /\ request' = NoRequest
    /\ UNCHANGED <<accounts, sent, served, images, imgVars, seoVars, calVars>>

\* the route generate_image: the add and the commit of the record; after
\* them the handler reads and writes nothing other threads see, and answers
HandleGenerateImage(w) ==
    /\ Free(w)
    /\ \E data \in GenerateImageRequests : \E net \in GenerateImageNets(data) :
        /\ request' = data
        /\ LET r == generate_image_route(data, huggingface_api_key, openai_api_key,
                                         net, images)
           IN  /\ images' = r.images
               /\ response' = r.response
    /\ served' = served + 1
    /\ UNCHANGED <<accounts, posts, sent, workers, imgVars, seoVars, calVars>>

\* a request arrives: the first step of its handler
ClientRequest ==
    \E w \in Workers :
        \/ HandleGenerateImage(w)
        \/ ConnectAccount(w)
        \/ DisconnectAccount(w)
        \/ CreatePost(w)
        \/ ApprovePost(w)
        \/ PublishPost(w)

\* the next step of a handler that has begun
Handle ==
    \E w \in Workers :
        \/ ConnectStore(w)
        \/ DisconnectCommit(w)
        \/ CreateAdd(w)
        \/ CreateImage(w)
        \/ ApproveCommit(w)
        \/ ApproveLoadPost(w)
        \/ PublishLoadAccount(w)
        \/ PlatformRequest(w)
        \/ InstagramPublish(w)
        \/ PublishCommit(w)

WebNext == ClientRequest \/ Handle

SpecWeb == WebInit /\ [][WebNext]_vars

\* The server starts on the database earlier requests have left: an
\* Instagram account is connected, and the one post has been created and
\* published once, without success (the creation of the container failed).
FailedPost ==
    Published([SocialMediaPost(1, "None") EXCEPT
                   !.error_message = "Graph API error message"], FALSE)

RetryInit ==
    /\ accounts = <<SocialMediaAccount("default_user", "instagram", "page-1")>>
    /\ posts = <<FailedPost>>
    /\ sent = <<>>
    /\ request = NoRequest
    /\ response = NoResponse
    /\ served = 0
    /\ images = <<>>
    /\ workers = [w \in Workers |-> WorkerIdle]
    /\ ImgIdle
    /\ SeoIdle
    /\ CalIdle

\* the clients send publish requests only
RetryNext ==
    \E w \in Workers :
        \/ PublishPost(w)
        \/ PublishLoadAccount(w)
        \/ PlatformRequest(w)
        \/ InstagramPublish(w)
        \/ PublishCommit(w)

SpecWebRetry == RetryInit /\ [][RetryNext]_vars

\* The server goes on with every handler that has begun; clients need not
\* send any request.
SpecWebFair == SpecWeb /\ WF_vars(Handle)

\* the thread w answers its request in this step
Answers(w) == workers[w].pc # "idle" /\ workers'[w].pc = "idle"

\* the request `data` arrives in this step
Arrives(data) == request' = data

\* C16: every request sent to a platform for a post is sent while the status
\* of the post is 'approved': none is sent for a post that is 'draft', and
\* none for a post that is 'posted'.
C16_SentOnlyWhileApproved ==
    \A i \in DOMAIN sent : sent[i].status = "approved"

\* C17: a post that is approved and has a scheduled time reaches status
\* 'posted' or 'failed', whether or not clients send any request.
C17_ScheduledIsPosted ==
    \A p \in 1..MaxClientRequests :
        (IF p \in DOMAIN posts
         THEN posts[p].status = "approved" /\ posts[p].scheduled_at # "None"
         ELSE FALSE)
        ~> (IF p \in DOMAIN posts
            THEN posts[p].status \in {"posted", "failed"}
            ELSE FALSE)

\* C18: when approve answers success for a post without a scheduled time,
\* the stored status of the post is 'posted' or 'failed'.
C18_ApprovedIsPublished ==
    [][\A w \in Workers :
          (/\ Answers(w)
           /\ workers[w].data.op = "approve_post"
           /\ posts[workers[w].data.post_id].scheduled_at = "None"
           /\ response'.success)
          => posts'[workers[w].data.post_id].status \in {"posted", "failed"}]_vars

\* C19: approve goes on to approve and to answer success only for a post it
\* has read in status 'draft'; for a post it reads in another status it
\* answers 'Post is not in draft status', changes no field of any post and
\* sends no request to a platform.
C19_ApproveOnlyDraft ==
    [][/\ \A p \in DOMAIN posts :
            (/\ Arrives([op |-> "approve_post", post_id |-> p])
             /\ posts[p].status # "draft")
            => /\ response' = Response(400, FALSE, "Post is not in draft status")
               /\ posts' = posts
               /\ sent' = sent
               /\ workers' = workers
       /\ \A w \in Workers :
            workers'[w].pc = "approve" => workers'[w].loaded.status = "draft"]_vars

C19_Witness ==
    /\ request.op = "approve_post"
    /\ response = Response(400, FALSE, "Post is not in draft status")
    /\ \A w \in Workers : workers[w].pc = "idle"
    /\ \E p \in DOMAIN posts : posts[p].status \in {"approved", "posted", "failed"}

\* C20: a media_publish request is sent only after a media request of the
\* same post was answered with an id, and carries that id as creation_id:
\* for every post and id there are no more media_publish requests than
\* media requests answered with the id, so that none follows a media request
\* answered without an id.  The publish attempt whose media request failed
\* assigns status 'failed' and answers failure, and after its commit the
\* post has status 'failed'.
C20_InstagramTwoSteps ==
    /\ [](\A i \in DOMAIN sent :
            sent[i].endpoint = "media_publish"
            => /\ sent[i].creation_id \in GraphIds
               /\ Cardinality({j \in 1..i : /\ sent[j].endpoint = "media_publish"
                                            /\ sent[j].post = sent[i].post
                                            /\ sent[j].creation_id = sent[i].creation_id})
                  <= Cardinality({j \in 1..i : /\ sent[j].endpoint = "media"
                                               /\ sent[j].post = sent[i].post
                                               /\ sent[j].outcome = sent[i].creation_id}))
    /\ [][\A w \in Workers :
            (/\ workers[w].pc = "send"
             /\ workers'[w] # workers[w]
             /\ sent'[Len(sent')].endpoint = "media"
             /\ sent'[Len(sent')].outcome \notin GraphIds)
            => /\ workers'[w].pc = "commit"
               /\ ~workers'[w].success
               /\ Published(workers'[w].local, workers'[w].success).status = "failed"]_vars
    /\ [][\A w \in Workers :
            (/\ workers[w].pc = "commit"
             /\ workers'[w].pc = "idle"
             /\ accounts[workers[w].loaded.account_id].platform = "instagram"
             /\ ~workers[w].success)
            => /\ workers[w].data.op = "publish_post" => ~response'.success
               /\ posts'[workers[w].data.post_id].status = "failed"]_vars

\* C21: create_post that finds the account disconnected answers 404 and
\* stores no post; publish_post that finds the account of the post
\* disconnected answers 404, sends no request to a platform and changes no
\* post; approve_post that finds it so sends no request either and leaves
\* posted_at and error_message alone.
C21_InactiveAccountNotUsed ==
    [][/\ \A data \in CreateRequests :
            (/\ Arrives(data)
             /\ data.complete
             /\ data.account_id \in DOMAIN accounts
             /\ ~accounts[data.account_id].is_active)
            => /\ response' = Response(404, FALSE, "Account not found or inactive")
               /\ posts' = posts
               /\ workers' = workers
       /\ \A w \in Workers :
            (/\ workers[w].pc = "load_account"
             /\ workers'[w] # workers[w]
             /\ ~accounts[workers[w].loaded.account_id].is_active)
            => /\ sent' = sent
               /\ posts' = posts
               /\ workers'[w].pc = "idle"
               /\ workers[w].data.op = "publish_post"
                  => response' = Response(404, FALSE, "Account not found or inactive")]_vars

C21_Witness ==
    /\ request = NoRequest
    /\ response = Response(404, FALSE, "Account not found or inactive")
    /\ \A w \in Workers : workers[w].pc = "idle"
    /\ Len(posts) = 1
    /\ posts[1].status = "draft"
    /\ sent = <<>>
    /\ ~accounts[posts[1].account_id].is_active

\* C22: the suggestions to add a location, a real estate keyword and a
\* call to action are each made exactly when the rubric gave the content no
\* points for the location 'Windsor', for keywords, for a call to action.
C22_SuggestionsAgreeWithRubric ==
    seoCall.op = "optimize_existing_content" =>
        LET content_lower == lower(seoIn.content)
        IN  /\ Suggested(SuggestLocation)
                <=> SeoLocationPoints(content_lower, "Windsor") = 0
            /\ Suggested(SuggestKeywords) <=> SeoKeywordPoints(content_lower) = 0
            /\ Suggested(SuggestCta) <=> SeoCtaPoints(content_lower) = 0

\* C23: the engagement score returned is the one with the 10 points for a
\* call to action given exactly when the content has one of the indicators
\* for which the SEO rubric gives its 15 points.
C23_EngagementCtaAsSeoCta ==
    seoCall.op = "calculate_engagement_score" =>
        LET content_lower == lower(seoIn.content)
            cta == IF SeoCtaPoints(content_lower) = 15 THEN 10 ELSE 0
        IN  seoRet.val =
                Min(calculate_seo_score(seoIn.content, "Windsor", "general") * 4
                    + 10 * HashtagFit(Len(seoCall.hashtags), seoCall.platform)
                    + 10 * PlatformPoints(seoIn.content, seoCall.platform)
                    + 10 * cta, 1000)

\* C24: the hour of the posting time returned lies in one of the hour
\* ranges configured for the platform and for the day type (weekday or
\* weekend) of the date of the posting time returned.
C24_HourFitsReturnedDay ==
    seoCall.op = "get_optimal_posting_time" =>
        LET time_ranges == TimeRanges(seoIn.platform, ParseTime(seoRet.val))
        IN  \E r \in DOMAIN time_ranges :
                /\ time_ranges[r][1] <= seoRet.val.hour
                /\ seoRet.val.hour < time_ranges[r][2]

Elems(seq) == {seq[i] : i \in DOMAIN seq}

\* C25: the hashtag list returned has exactly the drawn target count of
\* tags, hence at least the platform's minimum: the quotas of the three
\* tiers sum to the target count, none exceeds the size of its tier, and no
\* tag is in two tiers.
C25_ExactlyTargetCount ==
    seoCall.op = "generate_hashtags" =>
        LET target_count == seoCall.target_count
            strategy == Mix(seoIn.platform)
            high_count == Quota(target_count, strategy.high_volume)
            medium_count == Quota(target_count, strategy.medium_volume)
            niche_count == target_count - high_count - medium_count
        IN  /\ Len(seoRet.val) = target_count
            /\ Len(seoRet.val) >= CountRange(seoIn.platform)[1]
            /\ high_count + medium_count + niche_count = target_count
            /\ 0 <= high_count /\ high_count <= Len(hashtags_high_volume)
            /\ 0 <= medium_count /\ medium_count <= Len(hashtags_medium_volume)
            /\ 0 <= niche_count /\ niche_count <= Len(hashtags_niche)
            /\ Elems(hashtags_high_volume) \cap Elems(hashtags_medium_volume) = {}
            /\ Elems(hashtags_high_volume) \cap Elems(hashtags_niche) = {}
            /\ Elems(hashtags_medium_volume) \cap Elems(hashtags_niche) = {}

\* C25 witness: the minimum count drawn for Instagram and a list of that
\* length in which the tag of the location has merged with a tag of the
\* medium-volume tier.
C25_Witness ==
    /\ seoCall.op = "generate_hashtags"
    /\ seoIn.platform = "instagram"
    /\ seoIn.location = "Windsor"
    /\ seoCall.target_count = 8
    /\ Len(seoRet.val) = 8
    /\ "#WindsorRealEstate" \in Elems(seoRet.val)

\* C26: in every state of the post store the posted_at of a post is set
\* exactly when the status of the post is 'posted'.
C26_PostedAtIffPosted ==
    \A p \in DOMAIN posts :
        posts[p].posted_at # "None" <=> posts[p].status = "posted"

\* C27: an image generation record whose request has been answered is
\* 'completed' with an image reference or 'failed' with an error message,
\* never 'pending'.  The route answers in the step that creates the record.
C27_RecordLeavesPending ==
    \A i \in DOMAIN images :
        \/ images[i].status = "completed" /\ images[i].image_url # "None"
        \/ images[i].status = "failed" /\ images[i].error_message # "None"

\* C28: at most one account record exists for a user_id, platform and
\* account_id, under every interleaving of connect and disconnect requests.
C28_OneRecordPerAccount ==
    \A i, j \in DOMAIN accounts :
        (/\ accounts[i].user_id = accounts[j].user_id
         /\ accounts[i].platform = accounts[j].platform
         /\ accounts[i].account_id = accounts[j].account_id) => i = j

====
